---- MODULE Spec2Model ----
(***************************************************************************)
(* A model of the optmem peer store of chihaya-optmem-peerstore: the       *)
(* packed peer record, the bucketed peer list, the sharded swarm map with  *)
(* its reader/writer locks, the store facade and the garbage collector.    *)
(*                                                                         *)
(* Four specifications are given over the same variables:                  *)
(*   Spec        every public operation runs alone, from call to return,   *)
(*               within one second;                                        *)
(*   GCSpec      the clock advances and the GC goroutine sweeps shard by   *)
(*               shard while callers put and announce;                     *)
(*   FairGCSpec  GCSpec with the fairness the Go scheduler gives;          *)
(*   ConcSpec    two caller goroutines and a sweep interleave on one       *)
(*               infohash, each taking and releasing the shard locks as    *)
(*               the code does.                                            *)
(***************************************************************************)
EXTENDS Integers, Sequences, FiniteSets, TLC

(***************************************************************************)
(* Bounds of the model.                                                    *)
(***************************************************************************)
\* number of bits of the infohash prefix that select the shard (a
\* configuration value; the store creates 2^ShardCountBits shards)
ShardCountBits == 1
\* how many seconds the wall clock may advance in one behaviour
MaxTicks == 2
\* number of caller goroutines that run at the same time
MaxThreads == 2
\* the configured peer_lifetime, in seconds
PeerLifetime == 1
\* largest num_want an announce asks for
MaxWant == 2
\* how many outputs of the random generator one sampling call may consume
MaxDraws == 2

(***************************************************************************)
(* The peer record (types.go).                                             *)
(***************************************************************************)
ipLen == 16
portLen == 2
peerCompareSize == ipLen + portLen
peerFlagSeeder == 1
peerFlagLeecher == 2
MaxUint16 == 65535
v4InV6Prefix == <<0, 0, 0, 0, 0, 0, 0, 0, 0, 0, 255, 255>>
IPv4 == "IPv4"
IPv6 == "IPv6"

\* uint16(x) for a non-negative x
U16(x) == x % (MaxUint16 + 1)

\* net.IP.To16: a 4-byte address becomes its v4-in-v6 form, a 16-byte
\* address is returned as it is, anything else is nil (the empty slice).
To16(ip) ==
    IF Len(ip) = 4 THEN v4InV6Prefix \o ip
    ELSE IF Len(ip) = ipLen THEN ip
    ELSE <<>>

\* binary.BigEndian.PutUint16
PutUint16(port) == <<port \div 256, port % 256>>

\* makePeer: the record is kept as its 18 identity bytes (ip, then port),
\* its flag byte and its 16-bit time.
makePeer(p, flag, peerTime) ==
    [id |-> To16(p.ip) \o PutUint16(p.port), flag |-> flag, time |-> peerTime]

ip(p) == SubSeq(p.id, 1, ipLen)
\* the 4-byte form of a stored v4 address: the last four bytes of the 16
ip4(p) == SubSeq(p.id, ipLen - 3, ipLen)
port(p) == p.id[ipLen + 1] * 256 + p.id[ipLen + 2]
\* peerFlag()&peerFlagSeeder != 0 and peerFlag()&peerFlagLeecher != 0
isSeeder(p) == (p.flag % 2) = 1
isLeecher(p) == ((p.flag \div 2) % 2) = 1

(***************************************************************************)
(* The peer list (peer list file): buckets sorted by identity.             *)
(***************************************************************************)
\* bytes.Compare: the order of the first byte that differs, or of the
\* lengths when one slice is a prefix of the other
BytesCompare(a, b) ==
    IF a = b THEN 0
    ELSE LET n == IF Len(a) < Len(b) THEN Len(a) ELSE Len(b)
             diff == {i \in 1..n : a[i] # b[i]}
         IN  IF diff = {}
             THEN (IF Len(a) < Len(b) THEN -1 ELSE 1)
             ELSE LET k == CHOOSE i \in diff : \A j \in diff : i <= j
                  IN  IF a[k] < b[k] THEN -1 ELSE 1

\* bucket.Less
Less(x, y) == BytesCompare(x.id, y.id) < 0

\* a search predicate that passes over the equal record
binarySearchStrict(p, b, i) == BytesCompare(p.id, b[i + 1].id) < 0

\* binarySearchFunc(p, b)(i), with i counted from 0 as in the code
binarySearchFunc(p, b, i) == BytesCompare(p.id, b[i + 1].id) <= 0

\* sort.Search(n, f): the loop of the Go library, i and j counted from 0
RECURSIVE SearchLoop(_, _, _, _)
SearchLoop(p, b, i, j) ==
    IF i < j
    THEN LET h == (i + j) \div 2
         IN  IF ~binarySearchFunc(p, b, h)
             THEN SearchLoop(p, b, h + 1, j)
             ELSE SearchLoop(p, b, i, h)
    ELSE i

Search(p, b) == SearchLoop(p, b, 0, Len(b))

newPeerList == [numSeeders |-> 0, numPeers |-> 0, peerBuckets |-> << <<>> >>]

\* the hash of bucketIndex, reduced modulo m at every step; m divides 2^64
\* (the bucket count is a power of two), so the result is that of the
\* 64-bit computation
RECURSIVE HashFrom(_, _, _, _)
HashFrom(id, j, hash, m) ==
    IF j > peerCompareSize THEN hash
    ELSE HashFrom(id, j + 1, (hash + hash * 32 + id[j]) % m, m)

\* bucketIndex: hash % len(pl.peerBuckets), which is 0 for a single bucket
bucketIndex(pl, p) ==
    IF Len(pl.peerBuckets) = 1 THEN 0
    ELSE HashFrom(p.id, 1, 5381 % Len(pl.peerBuckets), Len(pl.peerBuckets))

RECURSIVE Doublings(_, _)
Doublings(t, acc) == IF t = 0 THEN acc ELSE Doublings(t \div 2, acc * 2)

\* a computeTargetBuckets whose target counts the bits of numPeers >> 9
computeTargetBucketsFromCount(numPeers) ==
    LET bufferWidth == numPeers \div 10 - 1
    IN  IF numPeers > 0
        THEN << Doublings(numPeers \div 512, 1),
                Doublings((numPeers + bufferWidth) \div 512, 1) >>
        ELSE << 1, 1 >>

\* a computeTargetBuckets whose buffer is a whole tenth of the peers
computeTargetBucketsWideBuffer(numPeers) ==
    LET bufferWidth == numPeers \div 10
    IN  IF numPeers > 0
        THEN << Doublings((numPeers - 1) \div 512, 1),
                Doublings((numPeers + bufferWidth) \div 512, 1) >>
        ELSE << 1, 1 >>

\* computeTargetBuckets: <<targetBuckets, defensiveTargetBuckets>>
computeTargetBuckets(numPeers) ==
    LET bufferWidth == numPeers \div 10 - 1
    IN  IF numPeers > 0
        THEN << Doublings((numPeers - 1) \div 512, 1),
                Doublings((numPeers + bufferWidth) \div 512, 1) >>
        ELSE << 1, 1 >>

\* sort.Sort(bucket): the records in the order of bucket.Less
SortBucket(b) == SortSeq(b, Less)

RECURSIVE Flatten(_)
Flatten(buckets) == IF buckets = <<>> THEN <<>> ELSE Head(buckets) \o Flatten(Tail(buckets))

\* a rebalanceBuckets that leaves the new buckets as they were filled
rebalanceBucketsUnsorted(pl) ==
    LET tb == computeTargetBuckets(pl.numPeers)
        targetBuckets == tb[1]
        defensiveTargetBuckets == tb[2]
        n == Len(pl.peerBuckets)
        all == Flatten(pl.peerBuckets)
        empty == [peerBuckets |-> [k \in 1..targetBuckets |-> <<>>]]
        fresh == [k \in 1..targetBuckets |->
                    SelectSeq(all, LAMBDA q : bucketIndex(empty, q) = k - 1)]
    IN  IF n = targetBuckets THEN [pl |-> pl, done |-> FALSE]
        ELSE IF n > targetBuckets /\ targetBuckets # defensiveTargetBuckets
             THEN [pl |-> pl, done |-> FALSE]
        ELSE [pl |-> [pl EXCEPT !.peerBuckets = fresh], done |-> TRUE]

\* a rebalanceBuckets without the buffer zone
rebalanceBucketsEager(pl) ==
    LET tb == computeTargetBuckets(pl.numPeers)
        targetBuckets == tb[1]
        n == Len(pl.peerBuckets)
        all == Flatten(pl.peerBuckets)
        empty == [peerBuckets |-> [k \in 1..targetBuckets |-> <<>>]]
        fresh == [k \in 1..targetBuckets |->
                    SortBucket(SelectSeq(all, LAMBDA q : bucketIndex(empty, q) = k - 1))]
    IN  IF n = targetBuckets THEN [pl |-> pl, done |-> FALSE]
        ELSE [pl |-> [pl EXCEPT !.peerBuckets = fresh], done |-> TRUE]

\* rebalanceBuckets: [pl, done]
rebalanceBuckets(pl) ==
    LET tb == computeTargetBuckets(pl.numPeers)
        targetBuckets == tb[1]
        defensiveTargetBuckets == tb[2]
        n == Len(pl.peerBuckets)
        all == Flatten(pl.peerBuckets)
        empty == [peerBuckets |-> [k \in 1..targetBuckets |-> <<>>]]
        fresh == [k \in 1..targetBuckets |->
                    SortBucket(SelectSeq(all, LAMBDA q : bucketIndex(empty, q) = k - 1))]
    IN  IF n = targetBuckets THEN [pl |-> pl, done |-> FALSE]
        ELSE IF n > targetBuckets /\ targetBuckets # defensiveTargetBuckets
             THEN [pl |-> pl, done |-> FALSE]
        ELSE [pl |-> [pl EXCEPT !.peerBuckets = fresh], done |-> TRUE]

RemoveAt(s, k) == SubSeq(s, 1, k - 1) \o SubSeq(s, k + 1, Len(s))
InsertAt(s, k, x) == SubSeq(s, 1, k - 1) \o <<x>> \o SubSeq(s, k, Len(s))

\* findPeer (the helper of the peer list tests)
findPeer(pl, p) ==
    LET bucket == pl.peerBuckets[bucketIndex(pl, p) + 1]
        match == Search(p, bucket)
    IN  ~(match >= Len(bucket) \/ p.id # bucket[match + 1].id)

\* a removePeer that forgets the seeder count
removePeerKeepsSeeders(pl, p) ==
    LET bi == bucketIndex(pl, p) + 1
        bucket == pl.peerBuckets[bi]
        match == Search(p, bucket)
    IN  IF match >= Len(bucket)
           \/ bucket[match + 1].flag # p.flag
           \/ p.id # bucket[match + 1].id
        THEN [pl |-> pl, found |-> FALSE]
        ELSE [pl |-> [numPeers |-> pl.numPeers - 1,
                      numSeeders |-> pl.numSeeders,
                      peerBuckets |-> [pl.peerBuckets EXCEPT ![bi] = RemoveAt(bucket, match + 1)]],
              found |-> TRUE]

\* a removePeer that matches the endpoint whatever its role
removePeerAnyRole(pl, p) ==
    LET bi == bucketIndex(pl, p) + 1
        bucket == pl.peerBuckets[bi]
        match == Search(p, bucket)
    IN  IF match >= Len(bucket) \/ p.id # bucket[match + 1].id
        THEN [pl |-> pl, found |-> FALSE]
        ELSE [pl |-> [numPeers |-> pl.numPeers - 1,
                      numSeeders |-> IF isSeeder(bucket[match + 1])
                                     THEN pl.numSeeders - 1 ELSE pl.numSeeders,
                      peerBuckets |-> [pl.peerBuckets EXCEPT ![bi] = RemoveAt(bucket, match + 1)]],
              found |-> TRUE]

\* removePeer: [pl, found]
removePeer(pl, p) ==
    LET bi == bucketIndex(pl, p) + 1
        bucket == pl.peerBuckets[bi]
        match == Search(p, bucket)
    IN  IF match >= Len(bucket)
           \/ bucket[match + 1].flag # p.flag
           \/ p.id # bucket[match + 1].id
        THEN [pl |-> pl, found |-> FALSE]
        ELSE [pl |-> [numPeers |-> pl.numPeers - 1,
                      numSeeders |-> IF isSeeder(bucket[match + 1])
                                     THEN pl.numSeeders - 1 ELSE pl.numSeeders,
                      peerBuckets |-> [pl.peerBuckets EXCEPT ![bi] = RemoveAt(bucket, match + 1)]],
              found |-> TRUE]

\* a putPeer that inserts a record without looking for the endpoint's own
putPeerAlwaysInserts(pl, p) ==
    LET bi == bucketIndex(pl, p) + 1
        bucket == pl.peerBuckets[bi]
        match == Search(p, bucket)
    IN  [numPeers |-> pl.numPeers + 1,
         numSeeders |-> IF isSeeder(p) THEN pl.numSeeders + 1 ELSE pl.numSeeders,
         peerBuckets |-> [pl.peerBuckets EXCEPT ![bi] = InsertAt(bucket, match + 1, p)]]

\* a putPeer that leaves the seeder count alone when it updates a record
putPeerNoRecount(pl, p) ==
    LET bi == bucketIndex(pl, p) + 1
        bucket == pl.peerBuckets[bi]
        match == Search(p, bucket)
    IN  IF match >= Len(bucket) \/ p.id # bucket[match + 1].id
        THEN [numPeers |-> pl.numPeers + 1,
              numSeeders |-> IF isSeeder(p) THEN pl.numSeeders + 1 ELSE pl.numSeeders,
              peerBuckets |-> [pl.peerBuckets EXCEPT ![bi] = InsertAt(bucket, match + 1, p)]]
        ELSE [numPeers |-> pl.numPeers,
              numSeeders |-> pl.numSeeders,
              peerBuckets |-> [pl.peerBuckets EXCEPT ![bi][match + 1] = p]]

\* putPeer
putPeer(pl, p) ==
    LET bi == bucketIndex(pl, p) + 1
        bucket == pl.peerBuckets[bi]
        match == Search(p, bucket)
    IN  IF match >= Len(bucket) \/ p.id # bucket[match + 1].id
        THEN [numPeers |-> pl.numPeers + 1,
              numSeeders |-> IF isSeeder(p) THEN pl.numSeeders + 1 ELSE pl.numSeeders,
              peerBuckets |-> [pl.peerBuckets EXCEPT ![bi] = InsertAt(bucket, match + 1, p)]]
        ELSE [numPeers |-> pl.numPeers,
              numSeeders |-> IF isLeecher(bucket[match + 1]) /\ isSeeder(p)
                             THEN pl.numSeeders + 1
                             ELSE IF isSeeder(bucket[match + 1]) /\ isLeecher(p)
                             THEN pl.numSeeders - 1
                             ELSE pl.numSeeders,
              peerBuckets |-> [pl.peerBuckets EXCEPT ![bi][match + 1] = p]]

\* the staleness test of peerList.collectGarbage, in uint16 arithmetic
isStale(peerTime, cutoffTime, maxDiff) ==
    IF peerTime = cutoffTime THEN TRUE
    ELSE IF peerTime < cutoffTime
         THEN (MaxUint16 - (cutoffTime - peerTime)) > maxDiff
         ELSE (peerTime - cutoffTime) > maxDiff

\* The two loops of peerList.collectGarbage.  A scan is where the loops
\* stand: the list, the result gc, bucket j and index i (both counted from
\* 1), whether removePeer missed a record (the panic), and whether the
\* loops are through.
newScan(pl) == [pl |-> pl, gc |-> FALSE, panicked |-> FALSE, j |-> 1, i |-> 1, done |-> FALSE]

\* a scan that moves on to the next index after a removal
GCRemovedMovesOn(r, st) ==
    IF ~r.found THEN [st EXCEPT !.gc = TRUE, !.panicked = TRUE, !.done = TRUE]
    ELSE [st EXCEPT !.pl = r.pl, !.gc = TRUE, !.i = @ + 1]

\* the scan after removePeer returned r for the record at (j, i): the panic
\* when the record was not found, else the same index is examined again
\* (the i-- before the i++ of the loop)
GCRemoved(r, st) ==
    IF ~r.found THEN [st EXCEPT !.gc = TRUE, !.panicked = TRUE, !.done = TRUE]
    ELSE [st EXCEPT !.pl = r.pl, !.gc = TRUE]

\* one turn of the loops: past the last bucket the scan is through, past
\* the end of a bucket the next bucket begins, else the record at (j, i) is
\* examined
GCStep(st, cutoffTime, maxDiff) ==
    IF st.j > Len(st.pl.peerBuckets) THEN [st EXCEPT !.done = TRUE]
    ELSE IF st.i > Len(st.pl.peerBuckets[st.j]) THEN [st EXCEPT !.j = @ + 1, !.i = 1]
    ELSE IF isStale(st.pl.peerBuckets[st.j][st.i].time, cutoffTime, maxDiff)
    THEN GCRemoved(removePeer(st.pl, st.pl.peerBuckets[st.j][st.i]), st)
    ELSE [st EXCEPT !.i = @ + 1]

\* 2^d turns of the loops, or fewer when the scan is through before: the
\* first half of the turns is taken, then the second half from where the
\* first left the scan
RECURSIVE GCTurns(_, _, _, _)
GCTurns(st, cutoffTime, maxDiff, d) ==
    IF st.done THEN st
    ELSE IF d = 0 THEN GCStep(st, cutoffTime, maxDiff)
    ELSE CHOOSE r \in {GCTurns(half, cutoffTime, maxDiff, d - 1) :
                          half \in {GCTurns(st, cutoffTime, maxDiff, d - 1)}} : TRUE

\* the loops until they are through, 4096 turns at a time
RECURSIVE GCScan(_, _, _)
GCScan(st, cutoffTime, maxDiff) ==
    IF st.done THEN [pl |-> st.pl, gc |-> st.gc, panicked |-> st.panicked]
    ELSE CHOOSE r \in {GCScan(next, cutoffTime, maxDiff) :
                          next \in {GCTurns(st, cutoffTime, maxDiff, 12)}} : TRUE

\* peerList.collectGarbage: [pl, gc, panicked]
plCollectGarbage(pl, cutoffTime, maxDiff) == GCScan(newScan(pl), cutoffTime, maxDiff)

\* a getAllPeers that puts the seeders first
getAllPeersSeedersFirst(pl) ==
    LET all == Flatten(pl.peerBuckets)
    IN  SelectSeq(all, isSeeder) \o SelectSeq(all, LAMBDA q : ~isSeeder(q))

\* getAllPeers: the leechers in bucket order, then the seeders
getAllPeers(pl) ==
    LET all == Flatten(pl.peerBuckets)
        seeders == SelectSeq(all, isSeeder)
        leechers == SelectSeq(all, LAMBDA q : ~isSeeder(q))
    IN  leechers \o seeders

getAllSeeders(pl) == SelectSeq(Flatten(pl.peerBuckets), isSeeder)

getAllLeechers(pl) == SelectSeq(Flatten(pl.peerBuckets), isLeecher)

\* one pass of the sampler over the buckets with the offset drawn
RECURSIVE SamplePass(_, _, _, _, _)
SamplePass(buckets, numWant, bucketOffset, wantSeeder, acc) ==
    IF buckets = <<>> \/ Len(acc) = numWant THEN acc
    ELSE LET b == Head(buckets)
         IN  IF Len(b) = 0
             THEN SamplePass(Tail(buckets), numWant, bucketOffset, wantSeeder, acc)
             ELSE LET peer == b[(bucketOffset % Len(b)) + 1]
                      hit == IF wantSeeder THEN isSeeder(peer) ELSE isLeecher(peer)
                  IN  SamplePass(Tail(buckets), numWant, bucketOffset, wantSeeder,
                                 IF hit THEN Append(acc, peer) ELSE acc)

\* the loop of getRandomSeeders / getRandomLeechers, fed with the values
\* random.Intn returns; done is FALSE when the loop wants one more value
RECURSIVE SampleLoop(_, _, _, _, _)
SampleLoop(pl, numWant, draws, wantSeeder, acc) ==
    IF Len(acc) >= numWant THEN [peers |-> acc, done |-> TRUE]
    ELSE IF draws = <<>> THEN [peers |-> acc, done |-> FALSE]
    ELSE SampleLoop(pl, numWant, Tail(draws), wantSeeder,
                    SamplePass(pl.peerBuckets, numWant, Head(draws), wantSeeder, acc))

getRandomSeeders(pl, numWant, draws) == SampleLoop(pl, numWant, draws, TRUE, <<>>)

\* a sampler of leechers that takes whatever record the offset hits
getRandomLeechersAnyRole(pl, numWant, draws) ==
    IF numWant <= 0 THEN [peers |-> <<>>, done |-> TRUE]
    ELSE IF draws = <<>> THEN [peers |-> <<>>, done |-> FALSE]
    ELSE [peers |-> [k \in 1..numWant |->
                        Flatten(pl.peerBuckets)[((Head(draws) + k) % pl.numPeers) + 1]],
          done |-> TRUE]

getRandomLeechers(pl, numWant, draws) == SampleLoop(pl, numWant, draws, FALSE, <<>>)

\* a getAnnouncePeers that caps a seeder's num_want at numPeers
getAnnouncePeersWrongCap(pl, numWant0, seeder, draws) ==
    IF seeder
    THEN LET numWant == IF numWant0 > pl.numPeers THEN pl.numPeers ELSE numWant0
         IN  IF numWant >= pl.numPeers - pl.numSeeders
             THEN [peers |-> getAllLeechers(pl), done |-> TRUE]
             ELSE getRandomLeechers(pl, numWant + 1, draws)
    ELSE [peers |-> getAllPeers(pl), done |-> TRUE]

\* getAnnouncePeers: [peers, done]
getAnnouncePeers(pl, numWant0, seeder, draws) ==
    IF seeder
    THEN LET numWant == IF numWant0 > pl.numPeers - pl.numSeeders
                        THEN pl.numPeers - pl.numSeeders ELSE numWant0
         IN  IF numWant = pl.numPeers - pl.numSeeders
             THEN [peers |-> getAllLeechers(pl), done |-> TRUE]
             ELSE getRandomLeechers(pl, numWant, draws)
    ELSE LET numWant == IF numWant0 > pl.numPeers THEN pl.numPeers ELSE numWant0
         IN  IF numWant <= pl.numSeeders
             THEN getRandomSeeders(pl, numWant, draws)
             ELSE IF numWant = pl.numPeers
             THEN [peers |-> getAllPeers(pl), done |-> TRUE]
             ELSE LET seeders == getAllSeeders(pl)
                      leechers == getRandomLeechers(pl, numWant - Len(seeders), draws)
                  IN  [peers |-> seeders \o leechers.peers, done |-> leechers.done]

\* binary.BigEndian.Uint64(a) + binary.BigEndian.Uint64(b) of two slices of
\* eight bytes each, as the eight bytes of the uint64 sum (the carry out of
\* the first byte is lost)
Uint64Sum(a, b) ==
    LET carry[k \in 1..8] ==
            IF k = 8 THEN 0 ELSE (a[k + 1] + b[k + 1] + carry[k + 1]) \div 256
    IN  [k \in 1..8 |-> (a[k] + b[k] + carry[k]) % 256]

\* deriveEntropyFromRequest: the two words the generator is started from,
\* of the first sixteen bytes of the infohash and of the peer ID
deriveEntropyFromRequest(infoHash, ID) ==
    <<Uint64Sum(SubSeq(infoHash, 1, 8), SubSeq(infoHash, 9, 16)),
      Uint64Sum(SubSeq(ID, 1, 8), SubSeq(ID, 9, 16))>>

(***************************************************************************)
(* Swarms, shards and the shard container.                                 *)
(***************************************************************************)
\* a *peerList field: Nil, or a pointer to a list
Nil == <<>>
Ptr(pl) == <<pl>>
Deref(x) == x[1]

RECURSIVE Pow2(_)
Pow2(n) == IF n = 0 THEN 1 ELSE 2 * Pow2(n - 1)

\* newShardContainer: 1 << shardCountBits shards
shardCount == Pow2(ShardCountBits)
ShardIds == 0..(shardCount - 1)

\* An infohash is written as the number its first two bytes hold; its other
\* bytes are zero.  The shard is Uint32(hash) >> (32 - shardCountBits), the
\* top shardCountBits bits, which the first two bytes decide.
shardShift == Pow2(16 - ShardCountBits)
shardOf(ih) == ih \div shardShift

emptyShard == [swarms |-> <<>>, numPeers |-> 0, numSeeders |-> 0]

\* shard.swarms[k] = v and delete(shard.swarms, k)
MapPut(m, k, v) == (k :> v) @@ m
MapDel(m, k) == [x \in (DOMAIN m) \ {k} |-> m[x]]

RECURSIVE SumOver(_, _)
SumOver(S, f) ==
    IF S = {} THEN 0
    ELSE LET x == CHOOSE y \in S : TRUE IN f[x] + SumOver(S \ {x}, f)

ErrNone == "ok"
ErrResourceDoesNotExist == "ErrResourceDoesNotExist"
ErrInvalidIP == "ErrInvalidIP"

listOf(sw, af) == IF af = IPv4 THEN sw.peers4 ELSE sw.peers6
withList(sw, af, l) == IF af = IPv4 THEN [sw EXCEPT !.peers4 = l] ELSE [sw EXCEPT !.peers6 = l]

\* PeerStore.putPeer, the lookup: the swarm is read, and created if absent
putLookup(sh, ih, af) ==
    IF ih \in DOMAIN sh.swarms
    THEN [sh |-> sh, pl |-> sh.swarms[ih], swarmCreated |-> FALSE]
    ELSE LET pl == withList([peers4 |-> Nil, peers6 |-> Nil], af, Ptr(newPeerList))
         IN  [sh |-> [sh EXCEPT !.swarms = MapPut(sh.swarms, ih, pl)],
              pl |-> pl, swarmCreated |-> TRUE]

\* what the peer list's putPeer hands back to the store: the change of
\* numPeers and of numSeeders
putDeltas(before, after) ==
    [deltaPeers |-> after.numPeers - before.numPeers,
     deltaSeeders |-> after.numSeeders - before.numSeeders]

\* PeerStore.putPeer, the update of the family's list and of the shard's
\* aggregates; pl is the swarm read by putLookup
putUpdate(sh, ih, pl, peer, af) ==
    LET list0 == IF listOf(pl, af) = Nil THEN newPeerList ELSE Deref(listOf(pl, af))
        list1 == putPeer(list0, peer)
        d == putDeltas(list0, list1)
        list2 == IF d.deltaPeers # 0 THEN rebalanceBuckets(list1).pl ELSE list1
    IN  [swarms |-> MapPut(sh.swarms, ih, withList(pl, af, Ptr(list2))),
         numPeers |-> IF d.deltaPeers # 0 THEN sh.numPeers + d.deltaPeers ELSE sh.numPeers,
         numSeeders |-> sh.numSeeders + d.deltaSeeders]

\* PeerStore.putPeer between lockShardByHash and unlockShardByHash
psPutPeer(sh, ih, peer, af) ==
    LET a == putLookup(sh, ih, af)
    IN  [sh |-> putUpdate(a.sh, ih, a.pl, peer, af), swarmCreated |-> a.swarmCreated]

\* a deletePeer that never unlinks the swarm
deleteUpdateKeepsSwarm(sh, ih, pl, peer, af) ==
    IF listOf(pl, af) = Nil
    THEN [sh |-> sh, deleted |-> FALSE, err |-> ErrResourceDoesNotExist]
    ELSE LET r == removePeer(Deref(listOf(pl, af)), peer)
             l1 == IF r.pl.numPeers = 0 THEN Nil ELSE Ptr(rebalanceBuckets(r.pl).pl)
         IN  IF ~r.found
             THEN [sh |-> sh, deleted |-> FALSE, err |-> ErrResourceDoesNotExist]
             ELSE [sh |-> [swarms |-> MapPut(sh.swarms, ih, withList(pl, af, l1)),
                           numPeers |-> sh.numPeers - 1,
                           numSeeders |-> IF isSeeder(peer) THEN sh.numSeeders - 1
                                          ELSE sh.numSeeders],
                   deleted |-> FALSE, err |-> ErrNone]

\* PeerStore.deletePeer after the lookup found the swarm pl
deleteUpdate(sh, ih, pl, peer, af) ==
    IF listOf(pl, af) = Nil
    THEN [sh |-> sh, deleted |-> FALSE, err |-> ErrResourceDoesNotExist]
    ELSE LET r == removePeer(Deref(listOf(pl, af)), peer)
             seeder == isSeeder(peer)
             l1 == IF r.pl.numPeers = 0 THEN Nil ELSE Ptr(rebalanceBuckets(r.pl).pl)
             pl1 == withList(pl, af, l1)
             gone == (pl1.peers4 = Nil /\ pl1.peers6 = Nil)
                     \/ (pl1.peers6 = Nil /\ Deref(pl1.peers4).numPeers = 0)
                     \/ (pl1.peers4 = Nil /\ Deref(pl1.peers6).numPeers = 0)
         IN  IF ~r.found
             THEN [sh |-> sh, deleted |-> FALSE, err |-> ErrResourceDoesNotExist]
             ELSE [sh |-> [swarms |-> IF gone THEN MapDel(sh.swarms, ih)
                                      ELSE MapPut(sh.swarms, ih, pl1),
                           numPeers |-> sh.numPeers - 1,
                           numSeeders |-> IF seeder THEN sh.numSeeders - 1 ELSE sh.numSeeders],
                   deleted |-> gone, err |-> ErrNone]

\* a deletePeer that reports a swarm it did not find as deleted
psDeletePeerCountsMissing(sh, ih, peer, af) ==
    IF ih \notin DOMAIN sh.swarms
    THEN [sh |-> sh, deleted |-> TRUE, err |-> ErrResourceDoesNotExist]
    ELSE deleteUpdate(sh, ih, sh.swarms[ih], peer, af)

\* PeerStore.deletePeer between lockShardByHash and the deferred unlock
psDeletePeer(sh, ih, peer, af) ==
    IF ih \notin DOMAIN sh.swarms
    THEN [sh |-> sh, deleted |-> FALSE, err |-> ErrResourceDoesNotExist]
    ELSE deleteUpdate(sh, ih, sh.swarms[ih], peer, af)

\* a sweep that leaves a list linked when its last peer was removed
gcListKeepsEmpty(l, internalCutoff, maxDiff) ==
    IF l = Nil THEN [l |-> Nil, panicked |-> FALSE]
    ELSE LET r == plCollectGarbage(Deref(l), internalCutoff, maxDiff)
         IN  IF r.panicked THEN [l |-> l, panicked |-> TRUE]
             ELSE [l |-> Ptr(IF r.gc THEN rebalanceBuckets(r.pl).pl ELSE r.pl),
                   panicked |-> FALSE]

\* one family's list in the sweep of PeerStore.collectGarbage: the list
\* field afterwards, and whether the list's scan panicked
gcList(l, internalCutoff, maxDiff) ==
    IF l = Nil THEN [l |-> Nil, panicked |-> FALSE]
    ELSE LET r == plCollectGarbage(Deref(l), internalCutoff, maxDiff)
         IN  IF r.panicked THEN [l |-> l, panicked |-> TRUE]
             ELSE IF r.pl.numPeers = 0 THEN [l |-> Nil, panicked |-> FALSE]
             ELSE [l |-> Ptr(IF r.gc THEN rebalanceBuckets(r.pl).pl ELSE r.pl),
                   panicked |-> FALSE]

listPeers(l) == IF l = Nil THEN 0 ELSE Deref(l).numPeers
listSeeders(l) == IF l = Nil THEN 0 ELSE Deref(l).numSeeders

\* a recount that takes the seeders of the IPv4 list for both families
gcSwarmCounts4Twice(acc, ih, g4, g6) ==
    [sh |-> [swarms |-> IF g4.l = Nil /\ g6.l = Nil THEN MapDel(acc.sh.swarms, ih)
                        ELSE MapPut(acc.sh.swarms, ih, [peers4 |-> g4.l, peers6 |-> g6.l]),
             numPeers |-> acc.sh.numPeers + listPeers(g4.l) + listPeers(g6.l),
             numSeeders |-> acc.sh.numSeeders + listSeeders(g4.l) + listSeeders(g4.l)],
     deltaTorrents |-> IF g4.l = Nil /\ g6.l = Nil THEN acc.deltaTorrents - 1
                       ELSE acc.deltaTorrents,
     panicked |-> acc.panicked \/ g4.panicked \/ g6.panicked]

\* a pass that reports one deleted swarm however many it deleted
gcSwarmUnitDelta(acc, ih, g4, g6) ==
    [sh |-> [swarms |-> IF g4.l = Nil /\ g6.l = Nil THEN MapDel(acc.sh.swarms, ih)
                        ELSE MapPut(acc.sh.swarms, ih, [peers4 |-> g4.l, peers6 |-> g6.l]),
             numPeers |-> acc.sh.numPeers + listPeers(g4.l) + listPeers(g6.l),
             numSeeders |-> acc.sh.numSeeders + listSeeders(g4.l) + listSeeders(g6.l)],
     deltaTorrents |-> IF g4.l = Nil /\ g6.l = Nil THEN 0 - 1
                       ELSE acc.deltaTorrents,
     panicked |-> acc.panicked \/ g4.panicked \/ g6.panicked]

\* PeerStore.collectGarbage, one swarm of the locked shard: g4 and g6 are
\* the swarm's two lists after their sweep
gcSwarm(acc, ih, g4, g6) ==
    [sh |-> [swarms |-> IF g4.l = Nil /\ g6.l = Nil THEN MapDel(acc.sh.swarms, ih)
                        ELSE MapPut(acc.sh.swarms, ih, [peers4 |-> g4.l, peers6 |-> g6.l]),
             numPeers |-> acc.sh.numPeers + listPeers(g4.l) + listPeers(g6.l),
             numSeeders |-> acc.sh.numSeeders + listSeeders(g4.l) + listSeeders(g6.l)],
     deltaTorrents |-> IF g4.l = Nil /\ g6.l = Nil THEN acc.deltaTorrents - 1
                       ELSE acc.deltaTorrents,
     panicked |-> acc.panicked \/ g4.panicked \/ g6.panicked]

\* PeerStore.collectGarbage, the loop over the swarms of one locked shard
\* (the map's iteration order does not matter: each swarm is swept alone)
RECURSIVE gcSwarms(_, _, _, _)
gcSwarmsAt(acc, ih, todo, internalCutoff, maxDiff) ==
    gcSwarms(gcSwarm(acc, ih, gcList(acc.sh.swarms[ih].peers4, internalCutoff, maxDiff),
                              gcList(acc.sh.swarms[ih].peers6, internalCutoff, maxDiff)),
             todo \ {ih}, internalCutoff, maxDiff)

gcSwarms(acc, todo, internalCutoff, maxDiff) ==
    IF todo = {} THEN acc
    ELSE gcSwarmsAt(acc, CHOOSE x \in todo : TRUE, todo, internalCutoff, maxDiff)

\* PeerStore.collectGarbage, the pass over one locked shard:
\* [sh, deltaTorrents, panicked]; numPeers and numSeeders are recounted
gcShard(sh, internalCutoff, maxDiff) ==
    gcSwarms([sh |-> [swarms |-> sh.swarms, numPeers |-> 0, numSeeders |-> 0],
              deltaTorrents |-> 0, panicked |-> FALSE],
             DOMAIN sh.swarms, internalCutoff, maxDiff)

\* the bittorrent.Peer values handed back to the caller
outPeer4(p) == [ip |-> ip4(p), port |-> port(p), af |-> IPv4]
outPeer6(p) == [ip |-> ip(p), port |-> port(p), af |-> IPv6]
MapSeq(s, Op(_)) == [k \in 1..Len(s) |-> Op(s[k])]

\* PeerStore.announceSingleStack under the shard's read lock
announceSingleStack(sh, ih, seeder, numWant, af, draws) ==
    IF ih \notin DOMAIN sh.swarms
    THEN [peers |-> <<>>, err |-> ErrResourceDoesNotExist, done |-> TRUE, panicked |-> FALSE]
    ELSE LET l == listOf(sh.swarms[ih], af)
         IN  IF l = Nil
             THEN \* getAnnouncePeers reads pl.numPeers through the nil pointer
                  [peers |-> <<>>, err |-> ErrNone, done |-> TRUE, panicked |-> TRUE]
             ELSE LET r == getAnnouncePeers(Deref(l), numWant, seeder, draws)
                  IN  [peers |-> IF af = IPv4 THEN MapSeq(r.peers, outPeer4)
                                 ELSE MapSeq(r.peers, outPeer6),
                       err |-> ErrNone, done |-> r.done, panicked |-> FALSE]

\* a scrape that counts the lists of both families
ScrapeSwarmBothFamilies(sh, ih, af) ==
    IF ih \notin DOMAIN sh.swarms THEN <<0, 0>>
    ELSE LET sw == sh.swarms[ih]
             seeders == (IF sw.peers4 = Nil THEN 0 ELSE Deref(sw.peers4).numSeeders)
                        + (IF sw.peers6 = Nil THEN 0 ELSE Deref(sw.peers6).numSeeders)
             peers == (IF sw.peers4 = Nil THEN 0 ELSE Deref(sw.peers4).numPeers)
                      + (IF sw.peers6 = Nil THEN 0 ELSE Deref(sw.peers6).numPeers)
         IN  <<seeders, peers - seeders>>

\* PeerStore.ScrapeSwarm: <<complete, incomplete>>
ScrapeSwarm(sh, ih, af) ==
    IF ih \notin DOMAIN sh.swarms THEN <<0, 0>>
    ELSE LET l == listOf(sh.swarms[ih], IF af = IPv6 THEN IPv6 ELSE IPv4)
         IN  IF l = Nil THEN <<0, 0>>
             ELSE <<Deref(l).numSeeders, Deref(l).numPeers - Deref(l).numSeeders>>

\* PeerStore.NumSeeders
NumSeeders(sh, ih) ==
    IF ih \notin DOMAIN sh.swarms THEN 0
    ELSE listSeeders(sh.swarms[ih].peers4) + listSeeders(sh.swarms[ih].peers6)

\* PeerStore.NumLeechers
NumLeechers(sh, ih) ==
    IF ih \notin DOMAIN sh.swarms THEN 0
    ELSE (listPeers(sh.swarms[ih].peers4) - listSeeders(sh.swarms[ih].peers4))
         + (listPeers(sh.swarms[ih].peers6) - listSeeders(sh.swarms[ih].peers6))

\* PeerStore.GetSeeders: [peers4, peers6, err]
GetSeeders(sh, ih) ==
    IF ih \notin DOMAIN sh.swarms
    THEN [peers4 |-> <<>>, peers6 |-> <<>>, err |-> ErrResourceDoesNotExist]
    ELSE LET sw == sh.swarms[ih]
         IN  [peers4 |-> IF sw.peers4 = Nil THEN <<>>
                         ELSE MapSeq(getAllSeeders(Deref(sw.peers4)), outPeer4),
              peers6 |-> IF sw.peers6 = Nil THEN <<>>
                         ELSE MapSeq(getAllSeeders(Deref(sw.peers6)), outPeer6),
              err |-> ErrNone]

\* PeerStore.GetLeechers: [peers4, peers6, err]
GetLeechers(sh, ih) ==
    IF ih \notin DOMAIN sh.swarms
    THEN [peers4 |-> <<>>, peers6 |-> <<>>, err |-> ErrResourceDoesNotExist]
    ELSE LET sw == sh.swarms[ih]
         IN  [peers4 |-> IF sw.peers4 = Nil THEN <<>>
                         ELSE MapSeq(getAllLeechers(Deref(sw.peers4)), outPeer4),
              peers6 |-> IF sw.peers6 = Nil THEN <<>>
                         ELSE MapSeq(getAllLeechers(Deref(sw.peers6)), outPeer6),
              err |-> ErrNone]

(***************************************************************************)
(* The state of the store and of its callers.                              *)
(***************************************************************************)
VARIABLES
    shards,       \* shardContainer.shards: the swarm map and aggregates of every shard
    numTorrents,  \* shardContainer.numTorrents, the atomic swarm counter
    lock,         \* shardContainer.shardLocks: the RWMutex of every shard
    now,          \* the wall clock, in Unix seconds
    ret,          \* the call that returned last, with what it returned
    hist,         \* history: for every (infohash, peer), the last put and what became of it
    gc,           \* the garbage collection goroutine started by New
    th,           \* the goroutines of the concurrent callers
    lin,          \* history: the store with every operation applied whole, in lock order
    stop,         \* PeerStore.closed and wg, the goroutine of Stop and the reporting goroutine
    cfg,          \* PeerStore.cfg, the validated configuration (durations in seconds)
    list,         \* a peerList of its own, outside the store, for the calls made on a list alone
    rng           \* package random: the values Intn hands out, for every pair of words it is started from

vars == <<shards, numTorrents, lock, now, ret, hist, gc, th, lin, stop, cfg, list, rng>>

\* the first second of a behaviour: two seconds before the 16-bit time wraps
StartTime == 65534

\* the callers' inputs
Infohashes == {0, 32768}
P1 == [ip |-> <<1, 2, 3, 4>>, port |-> 1234, af |-> IPv4]
P2 == [ip |-> <<2, 3, 4, 5>>, port |-> 2345, af |-> IPv4]
P6 == [ip |-> <<32, 1, 13, 184, 0, 0, 0, 0, 0, 0, 0, 0, 0, 0, 0, 1>>, port |-> 1234, af |-> IPv6]
P3 == [ip |-> <<3, 4, 5, 6>>, port |-> 3456, af |-> IPv4]
P4 == [ip |-> <<1, 2, 3, 4>>, port |-> 1235, af |-> IPv4]
NoPeer == [ip |-> <<>>, port |-> 0, af |-> IPv4]
InputPeers == {P1, P2, P3, P4, P6}
PeersOf(ih) == IF ih = 0 THEN {P1, P2, P6} ELSE {P1}
Families == {IPv4, IPv6}
\* values random.Intn(s0, s1, 1024) may return
DrawValues == {0, 1, 1023}
RECURSIVE SeqsOf(_, _)
SeqsOf(S, n) ==
    IF n = 0 THEN {<<>>}
    ELSE {<<x>> \o t : x \in S, t \in SeqsOf(S, n - 1)}
DrawSeqs == SeqsOf(DrawValues, MaxDraws)

\* the twenty bytes of an infohash
hashBytes(ih) == <<ih \div 256, ih % 256>> \o [k \in 1..18 |-> 0]
\* peer IDs of twenty bytes: IDa and IDb differ in their first sixteen bytes,
\* IDc is IDa with other bytes behind the sixteenth, IDd is IDa with its two
\* words of eight bytes swapped
IDa == [k \in 1..20 |-> IF k = 8 THEN 255 ELSE IF k = 16 THEN 2 ELSE 0]
IDb == [k \in 1..20 |-> IF k = 1 THEN 128 ELSE IF k = 9 THEN 128 ELSE IF k = 16 THEN 7 ELSE 0]
IDc == [k \in 1..20 |-> IF k > 16 THEN 9 ELSE IDa[k]]
IDd == [k \in 1..20 |-> IF k <= 8 THEN IDa[k + 8] ELSE IF k <= 16 THEN IDa[k - 8] ELSE 0]
PeerIDs == {IDa, IDb, IDc, IDd}
\* the pairs of words the requests start the generator from
Seeds == {deriveEntropyFromRequest(hashBytes(ih), id) : ih \in Infohashes, id \in PeerIDs}
\* a generator that hands out 0, 1 whatever it is started from
countingSource == [s \in Seeds |-> <<0, 1>>]

\* the goroutines that hold a lock are named by number: the callers, then
\* the sweep
Threads == 1..MaxThreads
GCId == MaxThreads + 1

\* sync.RWMutex: w are the holders of the write lock, r of the read lock;
\* leaked marks a read lock whose holder panicked before its RUnlock.
freeLock == [w |-> {}, r |-> {}, leaked |-> FALSE]

\* a Lock that does not wait for the writer
canLockBesideWriter(l) == l.r = {} /\ ~l.leaked

\* Lock waits until no reader and no writer holds the mutex
canLock(l) == l.w = {} /\ l.r = {} /\ ~l.leaked
\* RLock waits until no writer holds the mutex
canRLock(l) == l.w = {}

\* the last call and what it returned; was is the role the history held for
\* the call's endpoint when the call was made, again tells a put that
\* repeats the call before it
noRet == [op |-> "none", ih |-> 0, p |-> NoPeer, seeder |-> FALSE, numWant |-> 0,
          err |-> ErrNone, n |-> 0, m |-> 0, peers4 |-> <<>>, peers6 |-> <<>>, delta |-> 0,
          was |-> "none", again |-> FALSE, id |-> <<>>]

noHist == [role |-> "none", at |-> 0]

\* the records of (ih, p) in the store: the peers with p's identity in the
\* list of p's family
stored(S, ih, p) ==
    LET sh == S[shardOf(ih)]
    IN  IF ih \notin DOMAIN sh.swarms THEN <<>>
        ELSE LET l == listOf(sh.swarms[ih], p.af)
             IN  IF l = Nil THEN <<>>
                 ELSE SelectSeq(Flatten(Deref(l).peerBuckets),
                                LAMBDA q : q.id = makePeer(p, 0, 0).id)

\* history after a sweep by hand: a peer that was stored before and is not
\* stored after is no longer put
histAfterGC(S1, S2) ==
    [ih \in DOMAIN hist |-> [p \in InputPeers |->
        IF stored(S1, ih, p) # <<>> /\ stored(S2, ih, p) = <<>>
        THEN noHist ELSE hist[ih][p]]]

idleGC == [pc |-> "sleep", cutoff |-> 0, internalCutoff |-> 0, maxDiff |-> 0, i |-> 0, delta |-> 0]

\* a caller goroutine: its call, the shard as it read it under the lock (of
\* the container gen), the container seen when it unlocks,
\* what it returns (err, delta, res), and what the same call made alone on
\* lin returns (lerr, ldelta, lres)
idleThread == [pc |-> "idle", op |-> "none", ih |-> 0, p |-> NoPeer, pre |-> emptyShard,
               err |-> ErrNone, delta |-> 0, res |-> <<>>,
               lerr |-> ErrNone, ldelta |-> 0, lres |-> <<>>, gen |-> 0, seen |-> 0]

\* the store after New: closed is open, Stop was not called, the reporting
\* goroutine waits for its ticker, the process runs; gen counts the shard
\* containers s.shards has pointed to, old are the mutexes of the container
\* it pointed to before, pc2 is the goroutine of a second call of Stop
running == [closed |-> FALSE, pc |-> "none", prom |-> "sleep", crashed |-> FALSE,
            gen |-> 0, old |-> [i \in ShardIds |-> freeLock], pc2 |-> "none"]

\* the configuration of the store the callers use: a sweep interval of any
\* positive length, records kept for PeerLifetime seconds
storeConfig == [GarbageCollectionInterval |-> 1, PeerLifetime |-> PeerLifetime]

Init ==
    /\ cfg = storeConfig
    /\ list = newPeerList
    /\ rng = countingSource
    /\ shards = [i \in ShardIds |-> emptyShard]
    /\ numTorrents = 0
    /\ lock = [i \in ShardIds |-> freeLock]
    /\ now = StartTime
    /\ ret = noRet
    /\ hist = [ih \in Infohashes |-> [p \in InputPeers |-> noHist]]
    /\ gc = idleGC
    /\ th = [t \in Threads |-> idleThread]
    /\ lin = [i \in ShardIds |-> emptyShard]
    /\ stop = running

(***************************************************************************)
(* The public operations, each run alone from its call to its return.      *)
(***************************************************************************)
\* the select on s.closed that opens every public operation: on a closed
\* store the call panics ("attempted to interact with closed store") before
\* it takes a lock
ClosedPanic(op, ih, p) ==
    /\ ret' = [noRet EXCEPT !.op = op, !.ih = ih, !.p = p, !.err = "panic"]
    /\ UNCHANGED <<shards, numTorrents, lock, now, hist, gc, th, lin, stop, cfg, list, rng>>

\* peer.setIP panics unless it is handed ipLen bytes; makePeer hands it
\* To16 of the caller's address, which is nil for an address that has
\* neither 4 nor 16 bytes
setIPPanics(addr) == Len(addr) # ipLen

\* the panic of setIP inside makePeer, before any lock is taken
SetIPPanic(op, ih, p) ==
    /\ ret' = [noRet EXCEPT !.op = op, !.ih = ih, !.p = p, !.err = "panic"]
    /\ UNCHANGED <<shards, numTorrents, lock, now, hist, gc, th, lin, stop, cfg, list, rng>>

\* PutSeeder, PutLeecher and GraduateLeecher: makePeer with the role flag
\* and the time of the call, then PeerStore.putPeer
Put(op, flag, ih, p) ==
    IF stop.closed THEN ClosedPanic(op, ih, p) ELSE
    IF setIPPanics(To16(p.ip)) THEN SetIPPanic(op, ih, p) ELSE
    LET s == shardOf(ih)
        r == psPutPeer(shards[s], ih, makePeer(p, flag, U16(now)), p.af)
        delta == IF r.swarmCreated THEN 1 ELSE 0
    IN  /\ canLock(lock[s])
        /\ shards' = [shards EXCEPT ![s] = r.sh]
        /\ numTorrents' = numTorrents + delta
        /\ ret' = [noRet EXCEPT !.op = op, !.ih = ih, !.p = p, !.delta = delta,
                                !.was = hist[ih][p].role,
                                !.again = (ret.op = op /\ ret.ih = ih /\ ret.p = p)]
        /\ hist' = [hist EXCEPT ![ih][p] =
                      [role |-> IF flag = peerFlagSeeder THEN "seeder" ELSE "leecher",
                       at |-> now]]
        /\ UNCHANGED <<lock, now, gc, th, lin, stop, cfg, list, rng>>

PutSeeder(ih, p) == Put("put_seeder", peerFlagSeeder, ih, p)

PutLeecher(ih, p) == Put("put_leecher", peerFlagLeecher, ih, p)

GraduateLeecher(ih, p) == Put("graduate_leecher", peerFlagSeeder, ih, p)

\* DeleteSeeder and DeleteLeecher: makePeer with the role flag and time 0,
\* then PeerStore.deletePeer
Delete(op, flag, ih, p) ==
    IF stop.closed THEN ClosedPanic(op, ih, p) ELSE
    IF setIPPanics(To16(p.ip)) THEN SetIPPanic(op, ih, p) ELSE
    LET s == shardOf(ih)
        r == psDeletePeer(shards[s], ih, makePeer(p, flag, 0), p.af)
        delta == IF r.deleted THEN -1 ELSE 0
    IN  /\ canLock(lock[s])
        /\ shards' = [shards EXCEPT ![s] = r.sh]
        /\ numTorrents' = numTorrents + delta
        /\ ret' = [noRet EXCEPT !.op = op, !.ih = ih, !.p = p, !.err = r.err, !.delta = delta,
                                !.was = hist[ih][p].role]
        /\ hist' = IF r.err = ErrNone THEN [hist EXCEPT ![ih][p] = noHist] ELSE hist
        /\ UNCHANGED <<lock, now, gc, th, lin, stop, cfg, list, rng>>

DeleteSeeder(ih, p) == Delete("delete_seeder", peerFlagSeeder, ih, p)

DeleteLeecher(ih, p) == Delete("delete_leecher", peerFlagLeecher, ih, p)

\* AnnouncePeers: the family check, then announceSingleStack.  A panic
\* inside announceSingleStack leaves the shard's read lock held.
Announced(ih, seeder, numWant, p, r) ==
    LET s == shardOf(ih)
    IN  /\ lock' = IF r.panicked THEN [lock EXCEPT ![s].leaked = TRUE] ELSE lock
        /\ ret' = [noRet EXCEPT !.op = "announce_peers", !.ih = ih, !.p = p,
                                !.seeder = seeder, !.numWant = numWant,
                                !.err = IF r.panicked THEN "panic" ELSE r.err,
                                !.peers4 = IF p.af = IPv4 THEN r.peers ELSE <<>>,
                                !.peers6 = IF p.af = IPv6 THEN r.peers ELSE <<>>]
        /\ UNCHANGED <<shards, numTorrents, now, hist, gc, th, lin, stop, cfg, list, rng>>

\* the generator is consulted only by the sampler, as often as it asks:
\* draws are the numbers it hands out
AnnouncePeers(ih, seeder, numWant, p) ==
    IF stop.closed THEN ClosedPanic("announce_peers", ih, p) ELSE
    LET sh == shards[shardOf(ih)]
        r0 == announceSingleStack(sh, ih, seeder, numWant, p.af, <<>>)
    IN  /\ canRLock(lock[shardOf(ih)])
        /\ IF r0.done THEN Announced(ih, seeder, numWant, p, r0)
           ELSE \E draws \in DrawSeqs :
                  LET r == announceSingleStack(sh, ih, seeder, numWant, p.af, draws)
                  IN  r.done /\ Announced(ih, seeder, numWant, p, r)

\* the read-only queries
Query(ih, call) ==
    IF stop.closed THEN ClosedPanic(call.op, ih, call.p) ELSE
    /\ canRLock(lock[shardOf(ih)])
    /\ ret' = [call EXCEPT !.ih = ih]
    /\ UNCHANGED <<shards, numTorrents, lock, now, hist, gc, th, lin, stop, cfg, list, rng>>

Scrape(ih, af) ==
    LET r == ScrapeSwarm(shards[shardOf(ih)], ih, af)
    IN  Query(ih, [noRet EXCEPT !.op = "scrape", !.p = [NoPeer EXCEPT !.af = af],
                                !.n = r[1], !.m = r[2]])

CallNumSeeders(ih) ==
    Query(ih, [noRet EXCEPT !.op = "num_seeders", !.n = NumSeeders(shards[shardOf(ih)], ih)])

CallNumLeechers(ih) ==
    Query(ih, [noRet EXCEPT !.op = "num_leechers", !.n = NumLeechers(shards[shardOf(ih)], ih)])

CallGetSeeders(ih) ==
    LET r == GetSeeders(shards[shardOf(ih)], ih)
    IN  Query(ih, [noRet EXCEPT !.op = "get_seeders", !.err = r.err,
                                !.peers4 = r.peers4, !.peers6 = r.peers6])

CallGetLeechers(ih) ==
    LET r == GetLeechers(shards[shardOf(ih)], ih)
    IN  Query(ih, [noRet EXCEPT !.op = "get_leechers", !.err = r.err,
                                !.peers4 = r.peers4, !.peers6 = r.peers6])

\* PeerStore.collectGarbage, all shards one after the other from shard i:
\* internalCutoff and maxDiff are computed once, before the first shard.
\* The sweep waits at the first shard whose lock it cannot take.
sweepShard(acc, i, r) ==
    [S |-> [acc.S EXCEPT ![i] = r.sh],
     delta |-> acc.delta + r.deltaTorrents,
     panicked |-> acc.panicked \/ r.panicked,
     blocked |-> FALSE]

RECURSIVE sweepFrom(_, _, _, _)
sweepFrom(acc, i, internalCutoff, maxDiff) ==
    IF i >= shardCount THEN acc
    ELSE IF ~canLock(lock[i]) THEN [acc EXCEPT !.blocked = TRUE]
    ELSE sweepFrom(sweepShard(acc, i, gcShard(acc.S[i], internalCutoff, maxDiff)),
                   i + 1, internalCutoff, maxDiff)

sweepAll(S, cutoff, clock) ==
    sweepFrom([S |-> S, delta |-> 0, panicked |-> FALSE, blocked |-> FALSE],
              0, U16(cutoff), U16(clock - cutoff))

\* CollectGarbage(cutoff), called by hand; r is the sweep's outcome
Collected(cutoff, r) ==
    /\ shards' = r.S
    /\ numTorrents' = numTorrents + r.delta
    /\ ret' = [noRet EXCEPT !.op = "collect_garbage", !.n = cutoff, !.delta = r.delta,
                            !.err = IF r.panicked THEN "panic"
                                    ELSE IF r.blocked THEN "blocked" ELSE ErrNone]
    /\ hist' = histAfterGC(shards, shards')
    /\ UNCHANGED <<lock, now, gc, th, lin, stop, cfg, list, rng>>

CollectGarbage(cutoff) ==
    IF stop.closed THEN ClosedPanic("collect_garbage", 0, NoPeer)
    ELSE Collected(cutoff, sweepAll(shards, cutoff, now))

\* a second passes
Tick ==
    /\ now < StartTime + MaxTicks
    /\ now' = now + 1
    /\ UNCHANGED <<shards, numTorrents, lock, ret, hist, gc, th, lin, stop, cfg, list, rng>>

Next ==
    \/ \E ih \in Infohashes : \E p \in PeersOf(ih) : PutSeeder(ih, p)
    \/ \E ih \in Infohashes : \E p \in PeersOf(ih) : PutLeecher(ih, p)
    \/ \E ih \in Infohashes : \E p \in PeersOf(ih) : GraduateLeecher(ih, p)
    \/ \E ih \in Infohashes : \E p \in PeersOf(ih) : DeleteSeeder(ih, p)
    \/ \E ih \in Infohashes : \E p \in PeersOf(ih) : DeleteLeecher(ih, p)
    \/ \E ih \in Infohashes, seeder \in BOOLEAN, numWant \in 0..MaxWant, p \in {P1, P6} :
          AnnouncePeers(ih, seeder, numWant, p)
    \/ \E ih \in Infohashes, af \in Families : Scrape(ih, af)
    \/ \E ih \in Infohashes : CallNumSeeders(ih)
    \/ \E ih \in Infohashes : CallNumLeechers(ih)
    \/ \E ih \in Infohashes : CallGetSeeders(ih)
    \/ \E ih \in Infohashes : CallGetLeechers(ih)
    \/ \E d \in 0..PeerLifetime : CollectGarbage(now - d)

Spec == Init /\ [][Next]_vars

(***************************************************************************)
(* Properties of the operations run one at a time.                         *)
(***************************************************************************)
\* how often endpoint p occurs in a list of returned peers
Count(peers, p) ==
    Cardinality({k \in DOMAIN peers :
                   To16(peers[k].ip) = To16(p.ip) /\ peers[k].port = p.port})

\* the list of family af in a returned record
ownList(r, af) == IF af = IPv4 THEN r.peers4 ELSE r.peers6
otherList(r, af) == IF af = IPv4 THEN r.peers6 ELSE r.peers4

\* the number of peers a swarm holds over both families
swarmSize(S, ih) ==
    LET sh == S[shardOf(ih)]
    IN  IF ih \notin DOMAIN sh.swarms THEN 0
        ELSE listPeers(sh.swarms[ih].peers4) + listPeers(sh.swarms[ih].peers6)

\* findPeer on the list of p's family, FALSE when there is no such list
findable(S, ih, p) ==
    LET sh == S[shardOf(ih)]
    IN  /\ ih \in DOMAIN sh.swarms
        /\ listOf(sh.swarms[ih], p.af) # Nil
        /\ findPeer(Deref(listOf(sh.swarms[ih], p.af)), makePeer(p, 0, 0))

Deletes == {"delete_seeder", "delete_leecher"}
Puts == {"put_seeder", "put_leecher", "graduate_leecher"}
roleOf(op) == IF op \in {"delete_leecher", "put_leecher"} THEN "leecher" ELSE "seeder"

\* C1: an endpoint that was put and not deleted since is enumerated exactly
\* once by GetSeeders or GetLeechers, in the list of its own family and by
\* the call for the role of its last put; the other call and the other
\* family's list do not hold it.
C1_EnumeratedOnce ==
    ret.op \in {"get_seeders", "get_leechers"} =>
        \A p \in InputPeers :
            LET role == hist[ret.ih][p].role
                asked == IF ret.op = "get_seeders" THEN "seeder" ELSE "leecher"
            IN  /\ Count(ownList(ret, p.af), p) = (IF role = asked THEN 1 ELSE 0)
                /\ Count(otherList(ret, p.af), p) = 0
                /\ role = asked => ret.err = ErrNone /\ \E k \in DOMAIN ownList(ret, p.af) :
                                                          ownList(ret, p.af)[k] = p

C1_Witness ==
    /\ ret.op = "get_seeders" /\ ret.ih = 0
    /\ hist[0][P1].role = "seeder" /\ hist[0][P2].role = "leecher" /\ hist[0][P6].role = "seeder"
    /\ ret.peers4 = <<P1>> /\ ret.peers6 = <<P6>>

\* C5: a delete that succeeds leaves its endpoint neither findable nor
\* enumerated, takes exactly one from the swarm's count for the role deleted
\* and none from the other, and leaves every other endpoint of the swarm
\* stored as it was.
C5_DeleteRemovesOne ==
    [][(ret'.op \in Deletes /\ ret'.err = ErrNone) =>
        LET ih == ret'.ih
            p == ret'.p
            s == shardOf(ih)
            dS == IF ret'.op = "delete_seeder" THEN 1 ELSE 0
        IN  /\ ~findable(shards', ih, p)
            /\ stored(shards', ih, p) = <<>>
            /\ Count(ownList(GetSeeders(shards'[s], ih), p.af), p) = 0
            /\ Count(ownList(GetLeechers(shards'[s], ih), p.af), p) = 0
            /\ NumSeeders(shards'[s], ih) = NumSeeders(shards[s], ih) - dS
            /\ NumLeechers(shards'[s], ih) = NumLeechers(shards[s], ih) - (1 - dS)
            /\ \A q \in InputPeers \ {p} :
                  /\ stored(shards', ih, q) = stored(shards, ih, q)
                  /\ findable(shards', ih, q) = findable(shards, ih, q)]_vars

C5_Witness ==
    /\ ret.op = "delete_seeder" /\ ret.err = ErrNone /\ ret.ih = 0 /\ ret.p = P2
    /\ NumSeeders(shards[0], 0) = 1
    /\ GetSeeders(shards[0], 0).peers4 = <<P1>>

\* C6: a delete that removes the last peer of a swarm removes the swarm:
\* NumSeeders and NumLeechers are 0, GetSeeders and GetLeechers answer
\* ErrResourceDoesNotExist, and NumSwarms is one less.
C6_LastDeleteDestroysSwarm ==
    [][(ret'.op \in Deletes /\ ret'.err = ErrNone /\ swarmSize(shards, ret'.ih) = 1) =>
        LET ih == ret'.ih
            s == shardOf(ih)
        IN  /\ ih \notin DOMAIN shards'[s].swarms
            /\ NumSeeders(shards'[s], ih) = 0
            /\ NumLeechers(shards'[s], ih) = 0
            /\ GetSeeders(shards'[s], ih).err = ErrResourceDoesNotExist
            /\ GetLeechers(shards'[s], ih).err = ErrResourceDoesNotExist
            /\ numTorrents' = numTorrents - 1
            /\ ret'.delta = -1]_vars

C6_Witness ==
    /\ ret.op = "delete_seeder" /\ ret.err = ErrNone /\ ret.ih = 0 /\ ret.p = P1
    /\ ret.delta = -1
    /\ 0 \notin DOMAIN shards[0].swarms
    /\ numTorrents = 1

\* C7: DeleteSeeder on an endpoint stored as a leecher, and DeleteLeecher on
\* an endpoint stored as a seeder, answer ErrResourceDoesNotExist and leave
\* the lists, the counters, the swarm map and NumSwarms as they were.
C7_WrongRoleDelete ==
    [][(/\ ret'.op \in Deletes
        /\ stored(shards, ret'.ih, ret'.p) # <<>>
        /\ \A k \in DOMAIN stored(shards, ret'.ih, ret'.p) :
              stored(shards, ret'.ih, ret'.p)[k].flag # (IF ret'.op = "delete_seeder"
                                                         THEN peerFlagSeeder
                                                         ELSE peerFlagLeecher))
        => /\ ret'.err = ErrResourceDoesNotExist
           /\ ret'.delta = 0
           /\ shards' = shards
           /\ numTorrents' = numTorrents]_vars

C7_Witness ==
    /\ ret.op = "delete_seeder" /\ ret.err = ErrResourceDoesNotExist
    /\ ret.was = "leecher"
    /\ NumLeechers(shards[shardOf(ret.ih)], ret.ih) = 1
    /\ findable(shards, ret.ih, ret.p)

\* C8: DeleteSeeder and DeleteLeecher on an infohash without a swarm, on a
\* swarm without a list for the endpoint's family, or on an endpoint that
\* its family's list does not hold, answer ErrResourceDoesNotExist with a
\* swarm delta of 0, leave the shard's lock free and leave the swarms, the
\* lists, the counters and NumSwarms as they were.
C8_DeleteNotFound ==
    [][(ret'.op \in Deletes /\ stored(shards, ret'.ih, ret'.p) = <<>>) =>
        /\ ret'.err = ErrResourceDoesNotExist
        /\ ret'.delta = 0
        /\ shards' = shards
        /\ numTorrents' = numTorrents
        /\ lock' = lock
        /\ canLock(lock'[shardOf(ret'.ih)])]_vars

\* the swarm exists and has no list for the family of the endpoint
C8_Witness ==
    /\ ret.op = "delete_leecher" /\ ret.err = ErrResourceDoesNotExist /\ ret.delta = 0
    /\ ret.ih \in DOMAIN shards[shardOf(ret.ih)].swarms
    /\ listOf(shards[shardOf(ret.ih)].swarms[ret.ih], ret.p.af) = Nil
    /\ canLock(lock[shardOf(ret.ih)])

\* C9: AnnouncePeers on a swarm that has no list for the announcer's family
\* answers ErrResourceDoesNotExist and leaves no read lock held.
C9_AbsentFamilyNotFound ==
    (/\ ret.op = "announce_peers"
     /\ ret.ih \in DOMAIN shards[shardOf(ret.ih)].swarms
     /\ listOf(shards[shardOf(ret.ih)].swarms[ret.ih], ret.p.af) = Nil)
        => /\ ret.err = ErrResourceDoesNotExist
           /\ ~lock[shardOf(ret.ih)].leaked

\* C10: a put that turns a stored leecher into a seeder (GraduateLeecher
\* included) adds exactly one to its list's numSeeders and leaves numPeers;
\* a put that turns a stored seeder into a leecher takes exactly one from
\* numSeeders; a put with the stored role changes neither.
C10_RoleTransition ==
    [][(ret'.op \in Puts /\ stored(shards, ret'.ih, ret'.p) # <<>>) =>
        LET ih == ret'.ih
            p == ret'.p
            before == Deref(listOf(shards[shardOf(ih)].swarms[ih], p.af))
            after == Deref(listOf(shards'[shardOf(ih)].swarms[ih], p.af))
            old == stored(shards, ih, p)[1]
        IN  /\ after.numPeers = before.numPeers
            /\ after.numSeeders = before.numSeeders
                                  + (IF isLeecher(old) /\ roleOf(ret'.op) = "seeder" THEN 1
                                     ELSE IF isSeeder(old) /\ roleOf(ret'.op) = "leecher" THEN -1
                                     ELSE 0)
            /\ Len(stored(shards', ih, p)) = 1
            /\ stored(shards', ih, p)[1].flag = (IF roleOf(ret'.op) = "seeder"
                                                 THEN peerFlagSeeder ELSE peerFlagLeecher)]_vars

C10_Witness ==
    /\ ret.op = "graduate_leecher" /\ ret.was = "leecher" /\ ret.ih = 0 /\ ret.p = P1
    /\ NumLeechers(shards[0], 0) = 0
    /\ NumSeeders(shards[0], 0) = 1

(***************************************************************************)
(* Puts, deletes and the clock: the same call made twice.                  *)
(***************************************************************************)
PutNext ==
    \/ \E p \in PeersOf(0) : PutSeeder(0, p)
    \/ \E p \in PeersOf(0) : PutLeecher(0, p)
    \/ \E p \in PeersOf(0) : GraduateLeecher(0, p)
    \/ \E p \in PeersOf(0) : DeleteSeeder(0, p)
    \/ \E p \in PeersOf(0) : DeleteLeecher(0, p)
    \/ Tick

PutSpec == Init /\ [][PutNext]_vars

\* a peer list with the time of every record set to 0
untimed(l) ==
    IF l = Nil THEN Nil
    ELSE LET b == Deref(l).peerBuckets
         IN  Ptr([Deref(l) EXCEPT !.peerBuckets =
                    [j \in DOMAIN b |-> [k \in DOMAIN b[j] |-> [b[j][k] EXCEPT !.time = 0]]]])

\* the store without its timestamps
noTimes(S) ==
    [i \in ShardIds |->
        [S[i] EXCEPT !.swarms = [ih \in DOMAIN S[i].swarms |->
            [peers4 |-> untimed(S[i].swarms[ih].peers4),
             peers6 |-> untimed(S[i].swarms[ih].peers6)]]]]

\* C11: a PutSeeder, PutLeecher or GraduateLeecher that repeats the call
\* made right before it (whatever time has passed in between) changes no
\* endpoint, role, numPeers, numSeeders or NumSwarms, only timestamps; and
\* GraduateLeecher on an endpoint that is not stored creates it as a seeder.
C11_PutIdempotent ==
    [][/\ (ret'.op \in Puts /\ ret'.again /\ ret' # ret) =>
              /\ noTimes(shards') = noTimes(shards)
              /\ numTorrents' = numTorrents
              /\ ret'.delta = 0
       /\ (ret'.op = "graduate_leecher" /\ ret' # ret
            /\ stored(shards, ret'.ih, ret'.p) = <<>>) =>
              LET ih == ret'.ih
                  s == shardOf(ih)
              IN  /\ stored(shards', ih, ret'.p) = <<makePeer(ret'.p, peerFlagSeeder, U16(now))>>
                  /\ findable(shards', ih, ret'.p)
                  /\ NumSeeders(shards'[s], ih) = NumSeeders(shards[s], ih) + 1
                  /\ NumLeechers(shards'[s], ih) = NumLeechers(shards[s], ih)
                  /\ numTorrents' = numTorrents + (IF ih \in DOMAIN shards[s].swarms THEN 0 ELSE 1)
      ]_vars

\* GraduateLeecher was repeated one second later: one seeder, stamped anew
C11_Witness ==
    /\ ret.op = "graduate_leecher" /\ ret.again /\ ret.was = "seeder"
    /\ ret.ih = 0 /\ ret.p = P1
    /\ now = StartTime + 1
    /\ stored(shards, 0, P1) = <<makePeer(P1, peerFlagSeeder, U16(StartTime + 1))>>
    /\ NumSeeders(shards[0], 0) = 1 /\ numTorrents = 1

(***************************************************************************)
(* Announces on a swarm of up to four IPv4 peers and one IPv6 peer.        *)
(***************************************************************************)
\* largest num_want of an announce on the larger swarm
AnnWant == 4
AnnPeers == {P1, P2, P3, P4, P6}

AnnNext ==
    \/ \E p \in AnnPeers : PutSeeder(0, p)
    \/ \E p \in AnnPeers : PutLeecher(0, p)
    \/ \E seeder \in BOOLEAN, numWant \in 0..AnnWant, p \in {P1, P6} :
          AnnouncePeers(0, seeder, numWant, p)

AnnSpec == Init /\ [][AnnNext]_vars

\* the last call is an announce that returned peers
announced == ret.op = "announce_peers" /\ ret.err = ErrNone
\* the list the last announce read, its records, and what was returned
annList == Deref(listOf(shards[shardOf(ret.ih)].swarms[ret.ih], ret.p.af))
annAll == Flatten(annList.peerBuckets)
annGot == ownList(ret, ret.p.af)
\* num_want after its cap, for a leecher and for a seeder
annWantL == IF ret.numWant > annList.numPeers THEN annList.numPeers ELSE ret.numWant
annWantS == IF ret.numWant > annList.numPeers - annList.numSeeders
            THEN annList.numPeers - annList.numSeeders ELSE ret.numWant
outPeer(q) == IF ret.p.af = IPv4 THEN outPeer4(q) ELSE outPeer6(q)
\* the returned peer x is a stored seeder / a stored leecher
gotSeeder(x) == \E k \in DOMAIN annAll : isSeeder(annAll[k]) /\ outPeer(annAll[k]) = x
gotLeecher(x) == \E k \in DOMAIN annAll : isLeecher(annAll[k]) /\ outPeer(annAll[k]) = x
\* every stored record with role seeder (wantSeeder) or leecher is returned
\* exactly once among the positions from..to of the result
eachOnce(wantSeeder, from, to) ==
    \A k \in DOMAIN annAll :
        (isSeeder(annAll[k]) = wantSeeder) =>
            Cardinality({i \in from..to : i \in DOMAIN annGot
                                          /\ annGot[i] = outPeer(annAll[k])}) = 1

\* C12: an announce by a seeder returns exactly min(num_want, numPeers -
\* numSeeders) peers, all of the announcer's family and all stored as
\* leechers.
C12_SeederGetsLeechers ==
    (announced /\ ret.seeder) =>
        /\ Len(annGot) = annWantS
        /\ otherList(ret, ret.p.af) = <<>>
        /\ \A i \in DOMAIN annGot :
              /\ annGot[i].af = ret.p.af
              /\ gotLeecher(annGot[i])
              /\ ~gotSeeder(annGot[i])

\* a seeder asks for one of three leechers beside a seeder
C12_Witness ==
    /\ announced /\ ret.seeder /\ ret.numWant = 1 /\ ret.p = P1
    /\ annList.numPeers = 4 /\ annList.numSeeders = 1
    /\ Len(ret.peers4) = 1

\* C13 as claimed: an announce by a leecher whose capped num_want is
\* numPeers and exceeds numSeeders returns every peer of the list, every
\* seeder before any leecher.
C13_AllPeersSeedersFirst ==
    (announced /\ ~ret.seeder /\ annWantL = annList.numPeers
     /\ annWantL > annList.numSeeders) =>
        /\ Len(annGot) = annList.numPeers
        /\ eachOnce(TRUE, 1, Len(annGot))
        /\ eachOnce(FALSE, 1, Len(annGot))
        /\ \A i, j \in DOMAIN annGot :
              (gotLeecher(annGot[i]) /\ gotSeeder(annGot[j])) => j < i

\* C13 as the code has it: every peer of the list is returned once, every
\* leecher before any seeder.
C13_AllPeersLeechersFirst ==
    (announced /\ ~ret.seeder /\ annWantL = annList.numPeers
     /\ annWantL > annList.numSeeders) =>
        /\ Len(annGot) = annList.numPeers
        /\ eachOnce(TRUE, 1, Len(annGot))
        /\ eachOnce(FALSE, 1, Len(annGot))
        /\ \A i, j \in DOMAIN annGot :
              (gotLeecher(annGot[i]) /\ gotSeeder(annGot[j])) => i < j

\* a leecher asks for more than the two seeders and two leechers stored
C13_Witness ==
    /\ announced /\ ~ret.seeder /\ ret.numWant = AnnWant /\ ret.p = P1
    /\ annList.numPeers = 4 /\ annList.numSeeders = 2
    /\ Len(ret.peers4) = 4
    /\ gotLeecher(ret.peers4[1]) /\ gotSeeder(ret.peers4[4])

\* C14 as claimed: an announce by a leecher returns min(num_want, numPeers)
\* peers: seeders only when num_want is at most numSeeders, otherwise every
\* seeder and after them num_want - numSeeders leechers.
C14_LeecherGetsSeedersFirst ==
    (announced /\ ~ret.seeder) =>
        /\ Len(annGot) = annWantL
        /\ IF annWantL <= annList.numSeeders
           THEN \A i \in DOMAIN annGot : gotSeeder(annGot[i])
           ELSE /\ eachOnce(TRUE, 1, annList.numSeeders)
                /\ \A i \in DOMAIN annGot : i > annList.numSeeders => gotLeecher(annGot[i])

\* C14 as the code has it: as claimed when the capped num_want is below
\* numPeers; when it is numPeers (and above numSeeders) the num_want -
\* numSeeders leechers come first and every seeder after them.
C14_LeecherGetsSeeders ==
    (announced /\ ~ret.seeder) =>
        /\ Len(annGot) = annWantL
        /\ IF annWantL <= annList.numSeeders
           THEN \A i \in DOMAIN annGot : gotSeeder(annGot[i])
           ELSE IF annWantL < annList.numPeers
           THEN /\ eachOnce(TRUE, 1, annList.numSeeders)
                /\ \A i \in DOMAIN annGot : i > annList.numSeeders => gotLeecher(annGot[i])
           ELSE /\ eachOnce(TRUE, annWantL - annList.numSeeders + 1, annWantL)
                /\ \A i \in DOMAIN annGot :
                      i <= annWantL - annList.numSeeders => gotLeecher(annGot[i])

\* a leecher asks for three of one seeder and three leechers: the seeder,
\* then two sampled leechers
C14_Witness ==
    /\ announced /\ ~ret.seeder /\ ret.numWant = 3 /\ ret.p = P1
    /\ annList.numPeers = 4 /\ annList.numSeeders = 1
    /\ Len(ret.peers4) = 3
    /\ gotSeeder(ret.peers4[1]) /\ gotLeecher(ret.peers4[2]) /\ gotLeecher(ret.peers4[3])

(***************************************************************************)
(* The garbage collection goroutine, one lock and one shard at a time.     *)
(***************************************************************************)
\* a sweep is started with its cutoff: by the goroutine when its timer
\* fires (cutoffTime := time.Now().Add(-PeerLifetime)), or by a call of
\* CollectGarbage.  gc_interval may be any positive duration, so the timer
\* may fire whenever the goroutine sleeps.
GCStart(cutoff) ==
    /\ gc.pc = "sleep"
    /\ gc' = [idleGC EXCEPT !.pc = "begin", !.cutoff = cutoff]
    /\ UNCHANGED <<shards, numTorrents, lock, now, ret, hist, th, lin, stop, cfg, list, rng>>

GCWake == GCStart(now - cfg.PeerLifetime)

\* collectGarbage: internalCutoff and maxDiff, from a second reading of the
\* clock, then NumTotalPeers and NumSwarms for the debug log: they change
\* nothing on an open store and panic on a closed one
GCBegin ==
    /\ gc.pc = "begin"
    /\ gc' = IF stop.closed THEN [gc EXCEPT !.pc = "panicked"]
             ELSE [gc EXCEPT !.pc = "lock", !.internalCutoff = U16(gc.cutoff),
                             !.maxDiff = U16(now - gc.cutoff), !.i = 0]
    /\ UNCHANGED <<shards, numTorrents, lock, now, ret, hist, th, lin, stop, cfg, list, rng>>

\* lockShard(i)
GCLock ==
    /\ gc.pc = "lock"
    /\ canLock(lock[gc.i])
    /\ lock' = [lock EXCEPT ![gc.i].w = @ \cup {GCId}]
    /\ gc' = [gc EXCEPT !.pc = "sweep"]
    /\ UNCHANGED <<shards, numTorrents, now, ret, hist, th, lin, stop, cfg, list, rng>>

\* the loop over the swarms of shard i, then the Unlock of unlockShard; r
\* is the pass over the shard, l the same pass over the shard of lin
GCSwept(r, l) ==
    /\ shards' = [shards EXCEPT ![gc.i] = r.sh]
    /\ lin' = [lin EXCEPT ![gc.i] = l.sh]
    /\ lock' = [lock EXCEPT ![gc.i].w = @ \ {GCId}]
    /\ gc' = [gc EXCEPT !.pc = "add", !.delta = r.deltaTorrents]
    /\ hist' = histAfterGC(shards, shards')
    /\ UNCHANGED <<numTorrents, now, ret, th, stop, cfg, list, rng>>

GCSweep ==
    /\ gc.pc = "sweep"
    /\ GCSwept(gcShard(shards[gc.i], gc.internalCutoff, gc.maxDiff),
               gcShard(lin[gc.i], gc.internalCutoff, gc.maxDiff))

\* the atomic.AddUint64 of unlockShard, then the next shard; after the
\* last shard NumTotalPeers and NumSwarms are called once more for the log
\* (they panic on a closed store) and the sweep returns
GCAdd ==
    /\ gc.pc = "add"
    /\ numTorrents' = numTorrents + gc.delta
    /\ gc' = IF gc.i + 1 < shardCount
             THEN [gc EXCEPT !.pc = "lock", !.i = gc.i + 1, !.delta = 0]
             ELSE IF stop.closed THEN [gc EXCEPT !.pc = "panicked", !.delta = 0]
             ELSE idleGC
    /\ UNCHANGED <<shards, lock, now, ret, hist, th, lin, stop, cfg, list, rng>>

\* the peers put while the clock runs
GCPeers == {P1}

GCNext ==
    \/ \E ih \in Infohashes, p \in GCPeers : PutSeeder(ih, p)
    \/ \E ih \in Infohashes, p \in GCPeers : PutLeecher(ih, p)
    \/ \E ih \in Infohashes, p \in {P1, P6} : AnnouncePeers(ih, TRUE, MaxWant, p)
    \/ Tick
    \/ GCWake
    \/ GCBegin
    \/ GCLock
    \/ GCSweep
    \/ GCAdd

GCSpec == Init /\ [][GCNext]_vars

\* the clock runs, the timer fires, and the goroutine is scheduled; a
\* sync.RWMutex that is free is handed to the goroutine that waits for it
GCFairness ==
    /\ WF_vars(Tick)
    /\ WF_vars(GCWake)
    /\ WF_vars(GCBegin)
    /\ WF_vars(GCLock)
    /\ WF_vars(GCSweep)
    /\ WF_vars(GCAdd)

FairGCSpec == Init /\ [][GCNext]_vars /\ GCFairness

\* C3: a peer that the goroutine's sweep removes was put at least
\* PeerLifetime seconds before, in every interleaving of puts, ticks and
\* the sweep's steps.
C3_FreshNeverCollected ==
    [][(gc.pc = "sweep" /\ gc'.pc = "add") =>
        \A ih \in Infohashes, p \in InputPeers :
            (stored(shards, ih, p) # <<>> /\ stored(shards', ih, p) = <<>>)
                => now - hist[ih][p].at >= PeerLifetime]_vars

\* C15: a sweep with (internalCutoff, maxDiff) keeps a record exactly when
\* its time lies within maxDiff after the cutoff, the difference taken modulo
\* 2^16, whether or not the 16-bit subtraction wraps (a record stamped with
\* the cutoff itself is stale), and removes every other record.
C15_KeptIffWithinMaxDiff ==
    [][(gc.pc = "sweep" /\ gc'.pc = "add") =>
        \A ih \in Infohashes, p \in InputPeers :
            (shardOf(ih) = gc.i /\ stored(shards, ih, p) # <<>>) =>
                LET diff == (stored(shards, ih, p)[1].time - gc.internalCutoff) % (MaxUint16 + 1)
                IN  (stored(shards', ih, p) # <<>>) <=> (1 <= diff /\ diff <= gc.maxDiff)]_vars

\* the last second at which a put still expires before the clock stops
LastExpiring == StartTime + MaxTicks - PeerLifetime

\* C4: a peer that is put and not put again is removed in the end, and its
\* swarm with it when it was the swarm's last peer (every swarm of GCSpec
\* holds one peer).
C4_EventuallyCollected ==
    \A ih \in Infohashes, p \in GCPeers, t \in StartTime..LastExpiring :
        (stored(shards, ih, p) # <<>> /\ hist[ih][p].at = t)
            ~> (ih \notin DOMAIN shards[shardOf(ih)].swarms \/ hist[ih][p].at # t)

(***************************************************************************)
(* Concurrent callers on one infohash.  A writer takes the shard's lock    *)
(* and reads the shard, then writes what it computed and unlocks, then     *)
(* adds its swarm delta to numTorrents and returns.  A reader takes the    *)
(* read lock, then reads and unlocks, then returns.  lin is the store on   *)
(* which every call is made whole at the step where it writes or reads.    *)
(***************************************************************************)
ConcInfohash == CHOOSE ih \in Infohashes : shardOf(ih) = 0
ConcPeers == {P1, P6}
ConcWrites == {"put_seeder", "put_leecher", "delete_seeder"}
ConcReads == {"announce_peers", "scrape"}

flagOf(op) == IF roleOf(op) = "seeder" THEN peerFlagSeeder ELSE peerFlagLeecher

\* putPeer or deletePeer on the shard sh, with the delta handed to
\* unlockShardByHash
putOutcomeNoDelta(r) ==
    [sh |-> r.sh, delta |-> 0, err |-> ErrNone]
putOutcome(r) ==
    [sh |-> r.sh, delta |-> IF r.swarmCreated THEN 1 ELSE 0, err |-> ErrNone]
deleteOutcome(r) ==
    [sh |-> r.sh, delta |-> IF r.deleted THEN -1 ELSE 0, err |-> r.err]
applyWrite(sh, op, ih, p) ==
    IF op \in Puts
    THEN putOutcome(psPutPeer(sh, ih, makePeer(p, flagOf(op), U16(now)), p.af))
    ELSE deleteOutcome(psDeletePeer(sh, ih, makePeer(p, flagOf(op), 0), p.af))

\* announceSingleStack (a seeder asking for MaxWant peers) or ScrapeSwarm
\* on the shard sh
applyRead(sh, op, ih, p) ==
    IF op = "announce_peers"
    THEN announceSingleStack(sh, ih, TRUE, MaxWant, p.af, <<>>)
    ELSE [peers |-> ScrapeSwarm(sh, ih, p.af), err |-> ErrNone, done |-> TRUE,
          panicked |-> FALSE]

\* only the first idle goroutine takes the next call
mayStart(t) ==
    /\ th[t].pc = "idle"
    /\ \A u \in Threads : u < t => th[u].pc # "idle"

\* lockShardByHash, and the lookup of the swarm
WLock(t, op, ih, p) ==
    /\ mayStart(t)
    /\ canLock(lock[shardOf(ih)])
    /\ lock' = [lock EXCEPT ![shardOf(ih)].w = @ \cup {t}]
    /\ th' = [th EXCEPT ![t] = [idleThread EXCEPT !.pc = "locked", !.op = op, !.ih = ih,
                                                  !.p = p, !.pre = shards[shardOf(ih)]]]
    /\ UNCHANGED <<shards, numTorrents, now, ret, hist, gc, lin, stop, cfg, list, rng>>

\* the update of the shard, then the Unlock of unlockShardByHash; a is the
\* call on the shard as read, l the call on the shard of lin
Written(t, a, l) ==
    /\ shards' = [shards EXCEPT ![shardOf(th[t].ih)] = a.sh]
    /\ lin' = [lin EXCEPT ![shardOf(th[t].ih)] = l.sh]
    /\ lock' = [lock EXCEPT ![shardOf(th[t].ih)].w = @ \ {t}]
    /\ th' = [th EXCEPT ![t] = [@ EXCEPT !.pc = "add", !.pre = emptyShard,
                                         !.err = a.err, !.delta = a.delta,
                                         !.lerr = l.err, !.ldelta = l.delta]]
    /\ UNCHANGED <<numTorrents, now, ret, hist, gc, stop, cfg, list, rng>>

WBody(t) ==
    /\ th[t].pc = "locked"
    /\ Written(t, applyWrite(th[t].pre, th[t].op, th[t].ih, th[t].p),
                  applyWrite(lin[shardOf(th[t].ih)], th[t].op, th[t].ih, th[t].p))

\* the atomic.AddUint64 of unlockShardByHash, then the return
WAdd(t) ==
    /\ th[t].pc = "add"
    /\ numTorrents' = numTorrents + th[t].delta
    /\ th' = [th EXCEPT ![t] = idleThread]
    /\ UNCHANGED <<shards, lock, now, ret, hist, gc, lin, stop, cfg, list, rng>>

\* rLockShardByHash
RLock(t, op, ih, p) ==
    /\ mayStart(t)
    /\ canRLock(lock[shardOf(ih)])
    /\ lock' = [lock EXCEPT ![shardOf(ih)].r = @ \cup {t}]
    /\ th' = [th EXCEPT ![t] = [idleThread EXCEPT !.pc = "rlocked", !.op = op, !.ih = ih,
                                                  !.p = p]]
    /\ UNCHANGED <<shards, numTorrents, now, ret, hist, gc, lin, stop, cfg, list, rng>>

\* the read, then rUnlockShardByHash; a goroutine that panics in the read
\* ends with the read lock held
HasRead(t, a, l) ==
    /\ a.done
    /\ lock' = [lock EXCEPT ![shardOf(th[t].ih)].r = @ \ {t},
                            ![shardOf(th[t].ih)].leaked = @ \/ a.panicked]
    /\ th' = [th EXCEPT ![t] = IF a.panicked THEN idleThread
                               ELSE [@ EXCEPT !.pc = "ret", !.err = a.err, !.res = a.peers,
                                              !.lerr = l.err, !.lres = l.peers]]
    /\ UNCHANGED <<shards, numTorrents, now, ret, hist, gc, lin, stop, cfg, list, rng>>

RBody(t) ==
    /\ th[t].pc = "rlocked"
    /\ HasRead(t, applyRead(shards[shardOf(th[t].ih)], th[t].op, th[t].ih, th[t].p),
                  applyRead(lin[shardOf(th[t].ih)], th[t].op, th[t].ih, th[t].p))

RRet(t) ==
    /\ th[t].pc = "ret"
    /\ th' = [th EXCEPT ![t] = idleThread]
    /\ UNCHANGED <<shards, numTorrents, lock, now, ret, hist, gc, lin, stop, cfg, list, rng>>

\* CollectGarbage(now) called while the others run: every stored peer is
\* as old as the cutoff
CollectNow == GCStart(now)

ConcNext ==
    \/ \E t \in Threads, op \in ConcWrites, p \in ConcPeers : WLock(t, op, ConcInfohash, p)
    \/ \E t \in Threads : WBody(t)
    \/ \E t \in Threads : WAdd(t)
    \/ \E t \in Threads, op \in ConcReads, p \in ConcPeers : RLock(t, op, ConcInfohash, p)
    \/ \E t \in Threads : RBody(t)
    \/ \E t \in Threads : RRet(t)
    \/ GCWake
    \/ CollectNow
    \/ GCBegin
    \/ GCLock
    \/ GCSweep
    \/ GCAdd

ConcSpec == Init /\ [][ConcNext]_vars

\* C2: whenever no writer holds a shard's lock the shard is the shard of
\* lin, where every put, delete and sweep was made whole and one at a time,
\* at a step between its call and its return; and every call returns what
\* it returns on lin.
C2_Linearizable ==
    /\ \A i \in ShardIds : lock[i].w = {} => shards[i] = lin[i]
    /\ \A t \in Threads :
          th[t].pc \in {"add", "ret"} =>
              /\ th[t].err = th[t].lerr
              /\ th[t].delta = th[t].ldelta
              /\ th[t].res = th[t].lres

\* two puts overlap: the first has unlocked and not yet returned, the
\* second holds the lock, and a sweep waits for it
C2_Witness ==
    /\ th[1].pc = "add" /\ th[1].op = "put_seeder" /\ th[1].p = P1
    /\ th[2].pc = "locked" /\ th[2].op = "put_leecher" /\ th[2].p = P6
    /\ gc.pc = "lock" /\ gc.i = 0
    /\ stored(shards, 0, P1) # <<>>

(***************************************************************************)
(* What holds of the shards whenever their write lock is free.             *)
(***************************************************************************)
\* the records a list field holds
heldBy(l) == IF l = Nil THEN <<>> ELSE Flatten(Deref(l).peerBuckets)

\* a swarm of a shard map is clean: every linked list holds a peer, and
\* one of the two lists is linked
cleanSwarm(sw) ==
    /\ \A af \in Families :
           listOf(sw, af) # Nil =>
               /\ Deref(listOf(sw, af)).numPeers > 0
               /\ Len(heldBy(listOf(sw, af))) > 0
    /\ ~(sw.peers4 = Nil /\ sw.peers6 = Nil)

\* C16: in every state, every shard whose write lock is not held has only swarms whose linked peer lists hold at least one peer and that have at least one of their two family lists linked, after any interleaving of puts, deletes and sweeps.
C16_CleanupInvariant ==
    \A i \in ShardIds :
        lock[i].w = {} => \A ih \in DOMAIN shards[i].swarms : cleanSwarm(shards[i].swarms[ih])

\* a delete took the only IPv4 peer of a swarm that keeps its IPv6 list:
\* the IPv4 list is unlinked and the swarm stays
C16_Witness ==
    /\ \A i \in ShardIds : lock[i].w = {}
    /\ \E t \in Threads :
           /\ th[t].pc = "add" /\ th[t].op = "delete_seeder" /\ th[t].p = P1
           /\ th[t].err = ErrNone /\ th[t].delta = 0
    /\ ConcInfohash \in DOMAIN shards[0].swarms
    /\ shards[0].swarms[ConcInfohash].peers4 = Nil
    /\ listPeers(shards[0].swarms[ConcInfohash].peers6) = 1

\* shardContainer.getTorrentCount, which NumSwarms returns on an open store
getTorrentCount == numTorrents

\* the infohash entries of all shard maps
swarmEntries(S) == SumOver(ShardIds, [i \in ShardIds |-> Cardinality(DOMAIN S[i].swarms)])

\* a put, a delete or the sweep is between lockShard and the end of
\* unlockShard (the Unlock and the atomic add)
midWrite ==
    \/ \E t \in Threads : th[t].pc \in {"locked", "add"}
    \/ gc.pc \in {"sweep", "add"}

\* C17: in every state in which no put, delete or sweep is between taking a shard's write lock and finishing its unlockShard, the counter NumSwarms returns equals the number of infohash entries of all shard maps.
C17_NumSwarmsExact == ~midWrite => getTorrentCount = swarmEntries(shards)

\* a put created the swarm, a delete took its IPv4 peer and the swarm is
\* still counted once
C17_Witness ==
    /\ ~midWrite
    /\ getTorrentCount = 1
    /\ ConcInfohash \in DOMAIN shards[0].swarms
    /\ shards[0].swarms[ConcInfohash].peers4 = Nil
    /\ gc.pc = "lock" /\ gc.i = 1

\* NumTotalPeers on an open store: the shards' aggregates, summed
NumTotalPeers(S) ==
    [seeders |-> SumOver(ShardIds, [i \in ShardIds |-> S[i].numSeeders]),
     leechers |-> SumOver(ShardIds, [i \in ShardIds |-> S[i].numPeers - S[i].numSeeders])]

\* the records of a list field, and those of them that are seeders
heldPeers(l) == Len(heldBy(l))
heldSeeders(l) == Cardinality({k \in 1..Len(heldBy(l)) : isSeeder(heldBy(l)[k])})

\* the records and the seeders of a shard, every list of every swarm once
shardPeers(sh) ==
    SumOver(DOMAIN sh.swarms,
            [ih \in DOMAIN sh.swarms |->
                heldPeers(sh.swarms[ih].peers4) + heldPeers(sh.swarms[ih].peers6)])
shardSeeders(sh) ==
    SumOver(DOMAIN sh.swarms,
            [ih \in DOMAIN sh.swarms |->
                heldSeeders(sh.swarms[ih].peers4) + heldSeeders(sh.swarms[ih].peers6)])

\* C18: whenever a shard's write lock is not held, the shard's numPeers and numSeeders equal the peers and the seeders held by all lists of the shard, each list counted once, and every list's own numPeers and numSeeders equal what it holds; so whenever no write lock is held NumTotalPeers returns the number of stored seeders and the number of stored leechers.
C18_AggregatesConsistent ==
    /\ \A i \in ShardIds :
           lock[i].w = {} =>
               /\ shards[i].numPeers = shardPeers(shards[i])
               /\ shards[i].numSeeders = shardSeeders(shards[i])
               /\ \A ih \in DOMAIN shards[i].swarms, af \in Families :
                      /\ listPeers(listOf(shards[i].swarms[ih], af))
                             = heldPeers(listOf(shards[i].swarms[ih], af))
                      /\ listSeeders(listOf(shards[i].swarms[ih], af))
                             = heldSeeders(listOf(shards[i].swarms[ih], af))
    /\ (\A i \in ShardIds : lock[i].w = {}) =>
           /\ NumTotalPeers(shards).seeders
                  = SumOver(ShardIds, [i \in ShardIds |-> shardSeeders(shards[i])])
           /\ NumTotalPeers(shards).leechers
                  = SumOver(ShardIds, [i \in ShardIds |-> shardPeers(shards[i]) - shardSeeders(shards[i])])

\* an IPv4 leecher and an IPv6 seeder are stored, and the sweep has
\* recounted their shard
C18_Witness ==
    /\ \A i \in ShardIds : lock[i].w = {}
    /\ \A t \in Threads : th[t].pc = "idle"
    /\ gc.pc = "lock" /\ gc.i = 1
    /\ NumTotalPeers(shards) = [seeders |-> 1, leechers |-> 1]
    /\ listSeeders(shards[0].swarms[ConcInfohash].peers4) = 0
    /\ listSeeders(shards[0].swarms[ConcInfohash].peers6) = 1

(***************************************************************************)
(* Stop.  The store runs its two goroutines (the sweep and the reporting   *)
(* to Prometheus); callers make their calls one at a time, and one of      *)
(* them calls Stop on the running store, once.  A panic that no goroutine  *)
(* recovers ends the process: the deferred wg.Done of the goroutine runs,  *)
(* then the runtime exits, and no goroutine takes a step after that.       *)
(***************************************************************************)
StopInfohash == ConcInfohash
StopPeers == {P1}

\* newShardContainer: empty shards, free locks, a counter at zero
newShardContainer ==
    [shards |-> [i \in ShardIds |-> emptyShard],
     shardLocks |-> [i \in ShardIds |-> freeLock],
     numTorrents |-> 0]

\* a NumSwarms without the select on s.closed
CallNumSwarmsUnchecked ==
    /\ ret' = [noRet EXCEPT !.op = "num_swarms", !.n = getTorrentCount]
    /\ UNCHANGED <<shards, numTorrents, lock, now, hist, gc, th, lin, stop, cfg, list, rng>>

\* NumSwarms
CallNumSwarms ==
    IF stop.closed THEN ClosedPanic("num_swarms", 0, NoPeer)
    ELSE /\ ret' = [noRet EXCEPT !.op = "num_swarms", !.n = getTorrentCount]
         /\ UNCHANGED <<shards, numTorrents, lock, now, hist, gc, th, lin, stop, cfg, list, rng>>

\* NumTotalPeers: the read lock of every shard in turn
CallNumTotalPeers ==
    IF stop.closed THEN ClosedPanic("num_total_peers", 0, NoPeer)
    ELSE /\ \A i \in ShardIds : canRLock(lock[i])
         /\ ret' = [noRet EXCEPT !.op = "num_total_peers", !.n = NumTotalPeers(shards).seeders,
                                 !.m = NumTotalPeers(shards).leechers]
         /\ UNCHANGED <<shards, numTorrents, lock, now, hist, gc, th, lin, stop, cfg, list, rng>>

\* Stop, the caller's part: stop.AlreadyStopped on a closed store, else
\* the goroutine that closes and waits is started
CallStop ==
    /\ stop.closed \/ stop.pc = "none"
    /\ ret' = [noRet EXCEPT !.op = "stop",
                            !.err = IF stop.closed THEN "AlreadyStopped" ELSE ErrNone]
    /\ stop' = IF stop.closed THEN stop ELSE [stop EXCEPT !.pc = "close"]
    /\ UNCHANGED <<shards, numTorrents, lock, now, hist, gc, th, lin, cfg, list, rng>>

\* Stop's goroutine: close(s.closed); nothing recovers a panic of the
\* goroutine, the process exits
StopClose ==
    /\ stop.pc = "close"
    /\ stop' = IF stop.closed
               THEN \* close of a closed channel panics
                    [stop EXCEPT !.pc = "panicked", !.crashed = TRUE]
               ELSE [stop EXCEPT !.closed = TRUE, !.pc = "wait"]
    /\ UNCHANGED <<shards, numTorrents, lock, now, ret, hist, gc, th, lin, cfg, list, rng>>

\* wg.Done was called by the goroutine: it returned, or it panicked and
\* its deferred call ran
gcDone == gc.pc \in {"exited", "panicked"}
promDone == stop.prom \in {"exited", "panicked"}

\* Stop's goroutine: s.wg.Wait() returns, the shards are replaced by a new
\* container and toReturn is closed
StopDone ==
    /\ stop.pc = "wait"
    /\ gcDone /\ promDone
    /\ shards' = newShardContainer.shards
    /\ lock' = newShardContainer.shardLocks
    /\ numTorrents' = newShardContainer.numTorrents
    /\ hist' = [ih \in Infohashes |-> [p \in InputPeers |-> noHist]]
    /\ stop' = [stop EXCEPT !.pc = "done", !.gen = @ + 1, !.old = lock]
    /\ UNCHANGED <<now, ret, gc, th, lin, cfg, list, rng>>

\* the sweep's goroutine: the select takes <-ps.closed and returns
GCExit ==
    /\ gc.pc = "sleep"
    /\ stop.closed
    /\ gc' = [gc EXCEPT !.pc = "exited"]
    /\ UNCHANGED <<shards, numTorrents, lock, now, ret, hist, th, lin, stop, cfg, list, rng>>

\* the reporting goroutine: the select takes <-t.C
PromTick ==
    /\ stop.prom = "sleep"
    /\ stop' = [stop EXCEPT !.prom = "report"]
    /\ UNCHANGED <<shards, numTorrents, lock, now, ret, hist, gc, th, lin, cfg, list, rng>>

\* populateProm: NumSwarms and NumTotalPeers, which panic on a closed store
PromReport ==
    /\ stop.prom = "report"
    /\ stop.closed \/ \A i \in ShardIds : canRLock(lock[i])
    /\ stop' = [stop EXCEPT !.prom = IF stop.closed THEN "panicked" ELSE "sleep"]
    /\ UNCHANGED <<shards, numTorrents, lock, now, ret, hist, gc, th, lin, cfg, list, rng>>

\* the reporting goroutine: the select takes <-ps.closed, t.Stop(), return
PromExit ==
    /\ stop.prom = "sleep"
    /\ stop.closed
    /\ stop' = [stop EXCEPT !.prom = "exited"]
    /\ UNCHANGED <<shards, numTorrents, lock, now, ret, hist, gc, th, lin, cfg, list, rng>>

\* a goroutine panicked and nothing recovers it: the process exits
Crash ==
    /\ gc.pc = "panicked" \/ stop.prom = "panicked"
    /\ stop' = [stop EXCEPT !.crashed = TRUE]
    /\ UNCHANGED <<shards, numTorrents, lock, now, ret, hist, gc, th, lin, cfg, list, rng>>

StopNext ==
    \/ ~stop.crashed /\ \E p \in StopPeers : PutSeeder(StopInfohash, p)
    \/ ~stop.crashed /\ \E p \in StopPeers : PutLeecher(StopInfohash, p)
    \/ ~stop.crashed /\ \E p \in StopPeers : GraduateLeecher(StopInfohash, p)
    \/ ~stop.crashed /\ \E p \in StopPeers : DeleteSeeder(StopInfohash, p)
    \/ ~stop.crashed /\ \E p \in StopPeers : DeleteLeecher(StopInfohash, p)
    \/ ~stop.crashed /\ \E p \in StopPeers : AnnouncePeers(StopInfohash, TRUE, MaxWant, p)
    \/ ~stop.crashed /\ Scrape(StopInfohash, IPv4)
    \/ ~stop.crashed /\ CallNumSeeders(StopInfohash)
    \/ ~stop.crashed /\ CallNumLeechers(StopInfohash)
    \/ ~stop.crashed /\ CallGetSeeders(StopInfohash)
    \/ ~stop.crashed /\ CallGetLeechers(StopInfohash)
    \/ ~stop.crashed /\ CollectGarbage(now)
    \/ ~stop.crashed /\ CallNumSwarms
    \/ ~stop.crashed /\ CallNumTotalPeers
    \/ ~stop.crashed /\ CallStop
    \/ ~stop.crashed /\ StopClose
    \/ ~stop.crashed /\ StopDone
    \/ ~stop.crashed /\ GCWake
    \/ ~stop.crashed /\ GCExit
    \/ ~stop.crashed /\ GCBegin
    \/ ~stop.crashed /\ GCLock
    \/ ~stop.crashed /\ GCSweep
    \/ ~stop.crashed /\ GCAdd
    \/ ~stop.crashed /\ PromTick
    \/ ~stop.crashed /\ PromReport
    \/ ~stop.crashed /\ PromExit
    \/ ~stop.crashed /\ Crash

StopSpec == Init /\ [][StopNext]_vars

\* every goroutine that can take a step is scheduled, and the runtime
\* exits after a panic; the timers and the callers are not obliged
StopFairness ==
    /\ WF_vars(~stop.crashed /\ StopClose)
    /\ WF_vars(~stop.crashed /\ StopDone)
    /\ WF_vars(~stop.crashed /\ GCExit)
    /\ WF_vars(~stop.crashed /\ GCBegin)
    /\ WF_vars(~stop.crashed /\ GCLock)
    /\ WF_vars(~stop.crashed /\ GCSweep)
    /\ WF_vars(~stop.crashed /\ GCAdd)
    /\ WF_vars(~stop.crashed /\ PromReport)
    /\ WF_vars(~stop.crashed /\ PromExit)
    /\ WF_vars(~stop.crashed /\ Crash)

FairStopSpec == StopSpec /\ StopFairness

\* the public operations that check s.closed and panic
Guarded ==
    Puts \cup Deletes \cup
    {"announce_peers", "scrape", "num_seeders", "num_leechers", "get_seeders",
     "get_leechers", "collect_garbage", "num_swarms", "num_total_peers"}

\* C19: every call of a public operation other than Stop that is made after closed was signalled panics, and the step changes no shard, no shard lock and not the swarm counter.
C19_ClosedStoreRejects ==
    [][(stop.closed /\ ret' # ret /\ ret'.op # "stop") =>
           /\ ret'.op \in Guarded
           /\ ret'.err = "panic"
           /\ UNCHANGED <<shards, numTorrents, lock>>]_vars

\* PutSeeder on the closed store panicked while the sweep held the lock of
\* the shard and the peer stored before is still there
C19_Witness ==
    /\ stop.closed /\ stop.pc = "wait"
    /\ ret.op = "put_seeder" /\ ret.err = "panic"
    /\ gc.pc = "sweep" /\ lock[0].w = {GCId}
    /\ stored(shards, StopInfohash, P1) # <<>>

\* C20: the channel Stop returns is closed only after the sweep's goroutine has ended, and after every call of Stop on a running store it is closed at some time.
C20_StopCompletes ==
    /\ [](stop.pc = "done" => gcDone)
    /\ (stop.pc = "close") ~> (stop.pc = "done")

(***************************************************************************)
(* Callers that pass an address of a wrong length.                         *)
(***************************************************************************)
\* an address of three bytes
PBad == [ip |-> <<1, 2, 3>>, port |-> 1234, af |-> IPv4]
AddrPeers == {P1, P6, PBad}

AddrNext ==
    \/ \E p \in AddrPeers : PutSeeder(0, p)
    \/ \E p \in AddrPeers : PutLeecher(0, p)
    \/ \E p \in AddrPeers : GraduateLeecher(0, p)
    \/ \E p \in AddrPeers : DeleteSeeder(0, p)
    \/ \E p \in AddrPeers : DeleteLeecher(0, p)

AddrSpec == Init /\ [][AddrNext]_vars

\* C21: a put, graduate or delete called with an address of neither 4 nor 16 bytes returns ErrInvalidIP and leaves the shards, the shard locks and the swarm counter as they were.
C21_InvalidAddressRejected ==
    [][(ret' # ret /\ ret'.op \in Puts \cup Deletes /\ Len(ret'.p.ip) \notin {4, ipLen}) =>
           /\ ret'.err = ErrInvalidIP
           /\ UNCHANGED <<shards, numTorrents, lock>>]_vars

\* the leecher records a list field holds
heldLeechers(l) == Cardinality({k \in 1..Len(heldBy(l)) : isLeecher(heldBy(l)[k])})

\* the list a scrape of (ih, af) reads: Nil for an unknown infohash
scrapedList(S, ih, af) ==
    IF ih \in DOMAIN S[shardOf(ih)].swarms THEN listOf(S[shardOf(ih)].swarms[ih], af) ELSE Nil

\* C22: ScrapeSwarm(ih, af) returns as complete the number of seeder records and as incomplete the number of leecher records held by the list of family af of the swarm, whatever the other family's list holds, and 0 and 0 when the infohash is unknown or the swarm has no list of that family.
C22_ScrapeCountsFamily ==
    (ret.op = "scrape" /\ ret.err # "panic") =>
        /\ ret.n = heldSeeders(scrapedList(shards, ret.ih, ret.p.af))
        /\ ret.m = heldLeechers(scrapedList(shards, ret.ih, ret.p.af))
        /\ scrapedList(shards, ret.ih, ret.p.af) = Nil => (ret.n = 0 /\ ret.m = 0)

\* an IPv4 scrape of a swarm with an IPv4 seeder, an IPv4 leecher and an
\* IPv6 seeder
C22_Witness ==
    /\ ret.op = "scrape" /\ ret.ih = 0 /\ ret.p.af = IPv4
    /\ ret.n = 1 /\ ret.m = 1
    /\ heldSeeders(scrapedList(shards, 0, IPv6)) = 1

(***************************************************************************)
(* New.  Durations are in seconds.  ShardCountBits is fixed by the bound   *)
(* of that name and is not among the values a caller provides here.        *)
(***************************************************************************)
\* the longest duration a caller provides
MaxDuration == 2

defaultGarbageCollectionInterval == 180
defaultPeerLifetime == 1800
defaultPrometheusReportingInterval == 1

\* the errors of the earlier validateConfig
ErrInvalidGCInterval == "invalid gc_interval"
ErrInvalidGCCutoff == "invalid gc_cutoff"

\* the configurations handed to New
Durations == (0 - 1)..MaxDuration
Configs ==
    [GarbageCollectionInterval : Durations, PeerLifetime : Durations,
     PrometheusReportingInterval : {0, 1}]

\* a Validate that replaces only negative durations
ValidateKeepsZero(provided) ==
    [GarbageCollectionInterval |->
         IF provided.GarbageCollectionInterval < 0 THEN defaultGarbageCollectionInterval
         ELSE provided.GarbageCollectionInterval,
     PeerLifetime |->
         IF provided.PeerLifetime < 0 THEN defaultPeerLifetime ELSE provided.PeerLifetime,
     PrometheusReportingInterval |->
         IF provided.PrometheusReportingInterval < 0 THEN defaultPrometheusReportingInterval
         ELSE provided.PrometheusReportingInterval]

\* Config.Validate: every duration that is not positive is replaced by
\* its default; there is no error to return
Validate(provided) ==
    [GarbageCollectionInterval |->
         IF provided.GarbageCollectionInterval <= 0 THEN defaultGarbageCollectionInterval
         ELSE provided.GarbageCollectionInterval,
     PeerLifetime |->
         IF provided.PeerLifetime <= 0 THEN defaultPeerLifetime ELSE provided.PeerLifetime,
     PrometheusReportingInterval |->
         IF provided.PrometheusReportingInterval <= 0 THEN defaultPrometheusReportingInterval
         ELSE provided.PrometheusReportingInterval]

\* before New: no configuration, no goroutine
zeroConfig ==
    [GarbageCollectionInterval |-> 0, PeerLifetime |-> 0, PrometheusReportingInterval |-> 0]

Unbuilt ==
    /\ cfg = zeroConfig
    /\ list = newPeerList
    /\ rng = countingSource
    /\ shards = [i \in ShardIds |-> emptyShard]
    /\ numTorrents = 0
    /\ lock = [i \in ShardIds |-> freeLock]
    /\ now = StartTime
    /\ ret = noRet
    /\ hist = [ih \in Infohashes |-> [p \in InputPeers |-> noHist]]
    /\ gc = [idleGC EXCEPT !.pc = "none"]
    /\ th = [t \in Threads |-> idleThread]
    /\ lin = [i \in ShardIds |-> emptyShard]
    /\ stop = [running EXCEPT !.prom = "none"]

\* the store exists and its goroutines were started
built == gc.pc # "none" /\ stop.prom # "none"

\* New: the configuration is validated, the shards are made, the two
\* goroutines are started, and the store is returned with a nil error
New(provided) ==
    /\ ~built
    /\ cfg' = Validate(provided)
    /\ shards' = newShardContainer.shards
    /\ lock' = newShardContainer.shardLocks
    /\ numTorrents' = newShardContainer.numTorrents
    /\ gc' = idleGC
    /\ stop' = running
    /\ ret' = [noRet EXCEPT !.op = "new", !.n = provided.GarbageCollectionInterval,
                            !.m = provided.PeerLifetime, !.err = ErrNone]
    /\ UNCHANGED <<now, hist, th, lin, list, rng>>

NewNext ==
    \/ \E provided \in Configs : New(provided)
    \/ built /\ PutSeeder(0, P1)
    \/ built /\ Tick
    \/ GCWake
    \/ GCBegin
    \/ GCLock
    \/ GCSweep
    \/ GCAdd

NewSpec == Unbuilt /\ [][NewNext]_vars

MaxNumPeers == 1100

\* the number of peers is chosen; nothing was computed yet
TargetInit ==
    /\ ret \in {[noRet EXCEPT !.op = "numPeers", !.n = n] : n \in 0..MaxNumPeers}
    /\ cfg = storeConfig
    /\ list = newPeerList
    /\ rng = countingSource
    /\ shards = [i \in ShardIds |-> emptyShard]
    /\ numTorrents = 0
    /\ lock = [i \in ShardIds |-> freeLock]
    /\ now = StartTime
    /\ hist = [ih \in Infohashes |-> [p \in InputPeers |-> noHist]]
    /\ gc = idleGC
    /\ th = [t \in Threads |-> idleThread]
    /\ lin = [i \in ShardIds |-> emptyShard]
    /\ stop = running

\* the call computeTargetBuckets(ret.n): m is the target it returns, delta
\* the defensive target
CallComputeTargetBuckets ==
    /\ ret.op = "numPeers"
    /\ ret' = [ret EXCEPT !.op = "computeTargetBuckets",
                          !.m = computeTargetBuckets(ret.n)[1],
                          !.delta = computeTargetBuckets(ret.n)[2]]
    /\ UNCHANGED <<shards, numTorrents, lock, now, hist, gc, th, lin, stop, cfg, list, rng>>

TargetNext == CallComputeTargetBuckets

TargetSpec == TargetInit /\ [][TargetNext]_vars

\* the quotient a / b rounded up, for a >= 0 and b > 0
ceilDiv(a, b) == (a + b - 1) \div b

\* the smallest power of two that is at least k, which is 1 for k <= 1
leastPow2(k) ==
    CHOOSE q \in {Pow2(e) : e \in 0..16} :
        /\ q >= k
        /\ \A r \in {Pow2(e) : e \in 0..16} : r >= k => q <= r

\* C27: for every number of peers n, the target computeTargetBuckets(n) returns is the smallest power of two that is at least ceil(n / 512), and at least 1; it is 1 for 256 and 512, 2 for 513 and 1024, 4 for 1025.
C27_TargetBuckets ==
    ret.op = "computeTargetBuckets" =>
        /\ ret.m = leastPow2(ceilDiv(ret.n, 512))
        /\ ret.n \in {256, 512} => ret.m = 1
        /\ ret.n \in {513, 1024} => ret.m = 2
        /\ ret.n = 1025 => ret.m = 4

\* the first number of peers that needs four buckets
C27_Witness == ret.op = "computeTargetBuckets" /\ ret.n = 1025 /\ ret.m = 4

\* C28 as claimed: for every number of peers n, the defensive target computeTargetBuckets(n) returns is the smallest power of two that is at least ceil((n + n/10 - 1) / 512), and at least 1.
C28_DefensiveCeilOfBufferedLessOne ==
    ret.op = "computeTargetBuckets" =>
        ret.delta = leastPow2(ceilDiv(ret.n + ret.n \div 10 - 1, 512))

\* C28: for every number of peers n > 0, the defensive target computeTargetBuckets(n) returns is the smallest power of two that is greater than floor((n + n/10 - 1) / 512), which is the smallest power of two that is at least ceil((n + n/10) / 512); it is 1 for n = 0 and for 256, 2 for 512 and 513, 4 for 1024 and 1025.
C28_DefensiveBuckets ==
    ret.op = "computeTargetBuckets" =>
        /\ ret.n > 0 => ret.delta = leastPow2((ret.n + ret.n \div 10 - 1) \div 512 + 1)
        /\ ret.delta = leastPow2(ceilDiv(ret.n + ret.n \div 10, 512))
        /\ ret.n \in {0, 256} => ret.delta = 1
        /\ ret.n \in {512, 513} => ret.delta = 2
        /\ ret.n \in {1024, 1025} => ret.delta = 4

\* 467 peers and a buffer of 45 make 512: the defensive target is 2 while
\* the target is 1
C28_Witness ==
    ret.op = "computeTargetBuckets" /\ ret.n = 467 /\ ret.delta = 2 /\ ret.m = 1

(***************************************************************************)
(* Two swarms in one shard: the delta handed to unlockShard.               *)
(***************************************************************************)
\* two infohashes of the first shard
DeltaInfohashes == {ih \in 0..1 : shardOf(ih) = 0}

DeltaInit ==
    /\ cfg = storeConfig
    /\ list = newPeerList
    /\ rng = countingSource
    /\ shards = [i \in ShardIds |-> emptyShard]
    /\ numTorrents = 0
    /\ lock = [i \in ShardIds |-> freeLock]
    /\ now = StartTime
    /\ ret = noRet
    /\ hist = [ih \in Infohashes \cup DeltaInfohashes |-> [p \in InputPeers |-> noHist]]
    /\ gc = idleGC
    /\ th = [t \in Threads |-> idleThread]
    /\ lin = [i \in ShardIds |-> emptyShard]
    /\ stop = running

DeltaNext ==
    \/ \E ih \in DeltaInfohashes, p \in {P1, P6} : PutSeeder(ih, p)
    \/ \E ih \in DeltaInfohashes, p \in {P1, P6} : DeleteSeeder(ih, p)
    \/ Tick
    \/ GCWake
    \/ GCBegin
    \/ GCLock
    \/ GCSweep
    \/ GCAdd

DeltaSpec == DeltaInit /\ [][DeltaNext]_vars

\* a put or a delete returned without a panic
wrote == ret' # ret /\ ret'.op \in Puts \cup Deletes /\ ret'.err # "panic"

\* the sweep leaves a shard: the pass is done and unlockShard is called
swept == gc.pc = "sweep" /\ gc'.pc = "add"

\* C30 as claimed: every delta handed to unlockShard or unlockShardByHash is -1, 0 or +1, by a put, by a delete and by each pass of the sweep over one shard.
C30_UnlockDeltaUnit ==
    /\ ret.op \in Puts \cup Deletes => ret.delta \in {0 - 1, 0, 1}
    /\ gc.pc = "add" => gc.delta \in {0 - 1, 0, 1}

\* C30: a put hands unlockShardByHash +1 exactly when it created the swarm and 0 otherwise, a delete -1 exactly when it deleted the swarm and 0 otherwise, and each pass of the sweep over one shard hands unlockShard minus the number of swarms of the shard it deleted; in every case the delta is the change of the number of swarm entries.
C30_UnlockDeltaCountsSwarms ==
    [][/\ wrote =>
           /\ ret'.delta = swarmEntries(shards') - swarmEntries(shards)
           /\ ret'.op \in Puts => ret'.delta \in {0, 1}
           /\ ret'.op \in Deletes => ret'.delta \in {0 - 1, 0}
       /\ swept =>
           /\ gc'.delta = swarmEntries(shards') - swarmEntries(shards)
           /\ gc'.delta <= 0]_vars

\* the sweep emptied both swarms of the first shard in one pass
C30_Witness ==
    /\ gc.pc = "add" /\ gc.i = 0 /\ gc.delta = 0 - 2
    /\ DOMAIN shards[0].swarms = {}
    /\ numTorrents = 2

(***************************************************************************)
(* A peer list alone: putPeer, removePeer, collectGarbage and              *)
(* rebalanceBuckets called one by one, on lists of up to four buckets.     *)
(***************************************************************************)
\* how many test peers one fill puts, and how many fills a behaviour has
FillBatch == 520
MaxFills == 2

\* the peers of the peer list tests: 245.132.j.i
testPeer(k) == [ip |-> <<245, 132, k \div 256, k % 256>>, port |-> 3142, af |-> IPv4]

\* the k-th test record: one in three is a seeder; one in sixteen was put
\* at time 0, eight at time 1 and seven at time 2
fillRecord(k) ==
    makePeer(testPeer(k),
             IF k % 3 = 0 THEN peerFlagSeeder ELSE peerFlagLeecher,
             IF k % 16 = 0 THEN 0 ELSE IF k % 16 <= 8 THEN 1 ELSE 2)

\* putPeer and the rebalanceBuckets PeerStore.putPeer makes after it when
\* the list grew
putThenRebalance(pl, after) ==
    IF after.numPeers # pl.numPeers THEN rebalanceBuckets(after).pl ELSE after

\* the endpoints put and removed one by one
ListPeers == {P1, P2}
ListTimes == {0, 1}

\* the records of the list that are not of ListPeers
filled(pl) ==
    pl.numPeers - Cardinality({p \in ListPeers : findPeer(pl, makePeer(p, 0, 0))})

\* the parameters of a pass: with times 0, 1 and 2 in the list, (0, 2)
\* finds the records of time 0 stale, (0, 1) those of times 0 and 2,
\* (1, 1) those of times 0 and 1
ListPasses == {<<0, 2>>, <<0, 1>>, <<1, 1>>}

\* a fill is under way: test records are put one by one, FillBatch of them
midFill == ret.op = "fill" /\ filled(list) % FillBatch # 0

\* the next test record is put, as PeerStore.putPeer puts it, into a list
\* of test records; a fill starts on a list of a whole number of batches
\* and nothing else is called until it is through
ListFill ==
    /\ filled(list) = list.numPeers
    /\ midFill \/ (filled(list) % FillBatch = 0 /\ filled(list) < FillBatch * MaxFills)
    /\ list' = putThenRebalance(list, putPeer(list, fillRecord(filled(list))))
    /\ ret' = [op |-> "fill", from |-> filled(list)]
    /\ UNCHANGED <<shards, numTorrents, lock, now, hist, gc, th, lin, stop, cfg, rng>>

\* P2 is put on lists without test records only
ListPutPeer(p, flag, t) ==
    /\ ~midFill
    /\ p = P1 \/ filled(list) = 0
    /\ list' = putPeer(list, makePeer(p, flag, t))
    /\ ret' = [op |-> "putPeer", p |-> makePeer(p, flag, t)]
    /\ UNCHANGED <<shards, numTorrents, lock, now, hist, gc, th, lin, stop, cfg, rng>>

ListRemovePeer(p, flag) ==
    /\ ~midFill
    /\ list' = removePeer(list, makePeer(p, flag, 0)).pl
    /\ ret' = [op |-> "removePeer", p |-> makePeer(p, flag, 0),
               found |-> removePeer(list, makePeer(p, flag, 0)).found]
    /\ UNCHANGED <<shards, numTorrents, lock, now, hist, gc, th, lin, stop, cfg, rng>>

\* two neighbours of one bucket are both stale
staleNeighbours(pl, cutoffTime, maxDiff) ==
    \E j \in 1..Len(pl.peerBuckets) : \E i \in 1..(Len(pl.peerBuckets[j]) - 1) :
        /\ isStale(pl.peerBuckets[j][i].time, cutoffTime, maxDiff)
        /\ isStale(pl.peerBuckets[j][i + 1].time, cutoffTime, maxDiff)

ListCollected(r, cutoffTime, maxDiff) ==
    /\ ~midFill
    /\ list' = r.pl
    /\ ret' = [op |-> "collectGarbage", cutoffTime |-> cutoffTime, maxDiff |-> maxDiff,
               gc |-> r.gc, panicked |-> r.panicked,
               neighbours |-> staleNeighbours(list, cutoffTime, maxDiff)]
    /\ UNCHANGED <<shards, numTorrents, lock, now, hist, gc, th, lin, stop, cfg, rng>>

ListCollectGarbage(cutoffTime, maxDiff) ==
    ListCollected(plCollectGarbage(list, cutoffTime, maxDiff), cutoffTime, maxDiff)

ListRebalanced(r) ==
    /\ ~midFill
    /\ list' = r.pl
    /\ ret' = [op |-> "rebalanceBuckets", done |-> r.done, before |-> Len(list.peerBuckets)]
    /\ UNCHANGED <<shards, numTorrents, lock, now, hist, gc, th, lin, stop, cfg, rng>>

ListRebalance == ListRebalanced(rebalanceBuckets(list))

ListNext ==
    \/ ListFill
    \/ \E p \in ListPeers, t \in ListTimes : ListPutPeer(p, peerFlagSeeder, t)
    \/ \E p \in ListPeers, t \in ListTimes : ListPutPeer(p, peerFlagLeecher, t)
    \/ \E p \in ListPeers : ListRemovePeer(p, peerFlagSeeder)
    \/ \E p \in ListPeers : ListRemovePeer(p, peerFlagLeecher)
    \/ \E c \in ListPasses : ListCollectGarbage(c[1], c[2])
    \/ ListRebalance

ListSpec == Init /\ [][ListNext]_vars

\* the seeder records of bucket j
seedersIn(pl, j) == {i \in 1..Len(pl.peerBuckets[j]) : isSeeder(pl.peerBuckets[j][i])}

\* C24: in every state of a peer list reached by putPeer, removePeer, collectGarbage and rebalanceBuckets, numPeers is the sum of the bucket lengths, numSeeders is the number of records with the seeder bit, 0 <= numSeeders <= numPeers, and every record has exactly one of the seeder and leecher bits.
C24_CountersMatchBuckets ==
    /\ list.numPeers = SumOver(DOMAIN list.peerBuckets,
                               [j \in DOMAIN list.peerBuckets |-> Len(list.peerBuckets[j])])
    /\ list.numSeeders = SumOver(DOMAIN list.peerBuckets,
                                 [j \in DOMAIN list.peerBuckets |->
                                     Cardinality(seedersIn(list, j))])
    /\ 0 <= list.numSeeders /\ list.numSeeders <= list.numPeers
    /\ \A j \in DOMAIN list.peerBuckets : \A i \in 1..Len(list.peerBuckets[j]) :
           isSeeder(list.peerBuckets[j][i]) # isLeecher(list.peerBuckets[j][i])

\* a pass over a list of two buckets removed records and left seeders and
\* leechers
C24_Witness ==
    /\ ret.op = "collectGarbage" /\ ret.gc
    /\ Len(list.peerBuckets) = 2
    /\ 0 < list.numSeeders /\ list.numSeeders < list.numPeers

\* C25: in every state of a peer list, every bucket is strictly ascending by the 18-byte identity, every record is in the bucket bucketIndex gives for it with the current number of buckets, and findPeer finds every record.
C25_BucketsSortedAndPlaced ==
    \A j \in 1..Len(list.peerBuckets) :
        /\ \A i \in 1..(Len(list.peerBuckets[j]) - 1) :
               BytesCompare(list.peerBuckets[j][i].id, list.peerBuckets[j][i + 1].id) < 0
        /\ \A i \in 1..Len(list.peerBuckets[j]) :
               /\ bucketIndex(list, list.peerBuckets[j][i]) = j - 1
               /\ findPeer(list, list.peerBuckets[j][i])

\* rebalanceBuckets merged the two buckets of a list into one
C25_Witness ==
    /\ ret.op = "rebalanceBuckets" /\ ret.done /\ ret.before = 2
    /\ Len(list.peerBuckets) = 1
    /\ Len(list.peerBuckets[1]) > 1

\* a call of rebalanceBuckets
rebalanced == ret'.op = "rebalanceBuckets" /\ <<list, ret>>' # <<list, ret>>

\* C26: the number of buckets is a power of two; a call of rebalanceBuckets on a list of n peers raises it to the target of n when it was below, lowers it to the target only when the target equals the defensive target, and leaves it as it was otherwise; after 520 test peers put one by one into a new list there are 2 buckets, and after 520 more there are 4.
C26_RebalanceRule ==
    [][/\ Len(list'.peerBuckets) \in {Pow2(e) : e \in 0..16}
       /\ rebalanced =>
           /\ list'.numPeers = list.numPeers
           /\ Len(list.peerBuckets) < computeTargetBuckets(list.numPeers)[1]
                 => Len(list'.peerBuckets) = computeTargetBuckets(list.numPeers)[1]
           /\ Len(list'.peerBuckets) < Len(list.peerBuckets)
                 => /\ computeTargetBuckets(list.numPeers)[1]
                          = computeTargetBuckets(list.numPeers)[2]
                    /\ Len(list'.peerBuckets) = computeTargetBuckets(list.numPeers)[1]
           /\ (/\ Len(list.peerBuckets) > computeTargetBuckets(list.numPeers)[1]
               /\ computeTargetBuckets(list.numPeers)[1]
                     # computeTargetBuckets(list.numPeers)[2])
                 => Len(list'.peerBuckets) = Len(list.peerBuckets)
           /\ Len(list'.peerBuckets) > Len(list.peerBuckets)
                 => Len(list.peerBuckets) < computeTargetBuckets(list.numPeers)[1]
       /\ (ret'.op = "fill" /\ list'.numPeers = list.numPeers + 1) =>
           /\ Len(list'.peerBuckets) >= computeTargetBuckets(list'.numPeers)[1]
           /\ list'.numPeers = 520 => Len(list'.peerBuckets) = 2
           /\ list'.numPeers = 1040 => Len(list'.peerBuckets) = 4]_vars

\* rebalanceBuckets left two buckets to a list whose target is one bucket
\* and whose defensive target is two
C26_Witness ==
    /\ ret.op = "rebalanceBuckets" /\ ~ret.done /\ ret.before = 2
    /\ Len(list.peerBuckets) = 2
    /\ computeTargetBuckets(list.numPeers) = <<1, 2>>

\* a call of collectGarbage
collected == ret'.op = "collectGarbage" /\ <<list, ret>>' # <<list, ret>>

\* the records of bucket b that are not stale
keptOf(b, cutoffTime, maxDiff) ==
    SelectSeq(b, LAMBDA q : ~isStale(q.time, cutoffTime, maxDiff))

\* C29: a call of collectGarbage leaves in every bucket the records that were not stale, in their order, and nothing else, also when neighbours of a bucket are stale; it does not panic, the counters lose what was removed, and it returns true exactly when a record was removed.
C29_PassRemovesStale ==
    [][collected =>
           /\ ~ret'.panicked
           /\ Len(list'.peerBuckets) = Len(list.peerBuckets)
           /\ \A j \in 1..Len(list.peerBuckets) :
                  list'.peerBuckets[j]
                      = keptOf(list.peerBuckets[j], ret'.cutoffTime, ret'.maxDiff)
           /\ ret'.gc = (list'.numPeers < list.numPeers)
           /\ ret'.gc = (\E j \in 1..Len(list.peerBuckets) :
                            \E i \in 1..Len(list.peerBuckets[j]) :
                                isStale(list.peerBuckets[j][i].time,
                                        ret'.cutoffTime, ret'.maxDiff))]_vars

\* a pass over two buckets met stale neighbours, removed records and kept
\* others
C29_Witness ==
    /\ ret.op = "collectGarbage" /\ ret.gc /\ ret.neighbours
    /\ Len(list.peerBuckets) = 2
    /\ list.numPeers > 0

(***************************************************************************)
(* Announces whose sampler is fed by the generator started from the        *)
(* request, on a store with a second swarm.                                *)
(***************************************************************************)
\* an announce whose sampler draws from a source the callers share, whatever
\* the request
AnnouncePeersSharedSource(ih, seeder, numWant, p, ID) ==
    IF stop.closed THEN ClosedPanic("announce_peers", ih, p) ELSE
    LET s == shardOf(ih)
    IN  /\ canRLock(lock[s])
        /\ \E draws \in DrawSeqs :
              LET r == announceSingleStack(shards[s], ih, seeder, numWant, p.af, draws)
              IN  /\ r.done
                  /\ lock' = IF r.panicked THEN [lock EXCEPT ![s].leaked = TRUE] ELSE lock
                  /\ ret' = [noRet EXCEPT !.op = "announce_peers", !.ih = ih, !.p = p,
                                          !.seeder = seeder, !.numWant = numWant, !.id = ID,
                                          !.err = IF r.panicked THEN "panic" ELSE r.err,
                                          !.peers4 = IF p.af = IPv4 THEN r.peers ELSE <<>>,
                                          !.peers6 = IF p.af = IPv6 THEN r.peers ELSE <<>>]
        /\ UNCHANGED <<shards, numTorrents, now, hist, gc, th, lin, stop, cfg, list, rng>>

\* AnnouncePeers of the peer with the given ID: s0, s1 are derived from the
\* request and handed down to the sampler, which asks random.Intn for its
\* offsets; the call returns when the sampler is through
AnnouncePeersOf(ih, seeder, numWant, p, ID) ==
    IF stop.closed THEN ClosedPanic("announce_peers", ih, p) ELSE
    LET s == shardOf(ih)
        draws == rng[deriveEntropyFromRequest(hashBytes(ih), ID)]
        r == announceSingleStack(shards[s], ih, seeder, numWant, p.af, draws)
    IN  /\ canRLock(lock[s])
        /\ r.done
        /\ lock' = IF r.panicked THEN [lock EXCEPT ![s].leaked = TRUE] ELSE lock
        /\ ret' = [noRet EXCEPT !.op = "announce_peers", !.ih = ih, !.p = p,
                                !.seeder = seeder, !.numWant = numWant, !.id = ID,
                                !.err = IF r.panicked THEN "panic" ELSE r.err,
                                !.peers4 = IF p.af = IPv4 THEN r.peers ELSE <<>>,
                                !.peers6 = IF p.af = IPv6 THEN r.peers ELSE <<>>]
        /\ UNCHANGED <<shards, numTorrents, now, hist, gc, th, lin, stop, cfg, list, rng>>

\* the values a generator hands out to one request
DetDraws == {<<0, 1>>, <<1, 1023>>}
DetPeers == {P1, P2, P3}

\* the generators told apart by the requests for infohash 0
Generators ==
    {g \in [Seeds -> DetDraws] :
        \A id \in PeerIDs : g[deriveEntropyFromRequest(hashBytes(32768), id)] = <<0, 1>>}

\* the store after New, with any generator
DetInit ==
    /\ cfg = storeConfig
    /\ list = newPeerList
    /\ rng \in Generators
    /\ shards = [i \in ShardIds |-> emptyShard]
    /\ numTorrents = 0
    /\ lock = [i \in ShardIds |-> freeLock]
    /\ now = StartTime
    /\ ret = noRet
    /\ hist = [ih \in Infohashes |-> [p \in InputPeers |-> noHist]]
    /\ gc = idleGC
    /\ th = [t \in Threads |-> idleThread]
    /\ lin = [i \in ShardIds |-> emptyShard]
    /\ stop = running

DetNext ==
    \/ \E p \in DetPeers : PutSeeder(0, p)
    \/ \E p \in DetPeers : PutLeecher(0, p)
    \/ PutLeecher(32768, P2)
    \/ DeleteLeecher(32768, P2)
    \/ \E seeder \in BOOLEAN, numWant \in 0..MaxWant, p \in {P1, P4}, ID \in PeerIDs :
          AnnouncePeersOf(0, seeder, numWant, p, ID)

DetSpec == DetInit /\ [][DetNext]_vars

\* what an announce returns on a store that holds nothing but the list l,
\* asked by a peer of l's family
resultOn(l, ih, seeder, numWant, ID) ==
    getAnnouncePeers(Deref(l), numWant, seeder,
                     rng[deriveEntropyFromRequest(hashBytes(ih), ID)]).peers

Reads == {"announce_peers", "scrape", "num_seeders", "num_leechers",
          "get_seeders", "get_leechers"}

\* the list of family af the store holds for ih: Nil without a swarm
listIn(S, ih, af) ==
    IF ih \in DOMAIN S[shardOf(ih)].swarms THEN listOf(S[shardOf(ih)].swarms[ih], af)
    ELSE Nil

otherFamily(af) == IF af = IPv4 THEN IPv6 ELSE IPv4

\* a put, delete or graduation leaves the swarms of the other infohashes
\* and the list of the other family
writesKeepOthers ==
    (ret'.op \in Puts \cup Deletes /\ ret' # ret) =>
        /\ \A i \in ShardIds :
              /\ (DOMAIN shards'[i].swarms) \ {ret'.ih} = (DOMAIN shards[i].swarms) \ {ret'.ih}
              /\ \A ih \in (DOMAIN shards[i].swarms) \ {ret'.ih} :
                    shards'[i].swarms[ih] = shards[i].swarms[ih]
        /\ listIn(shards', ret'.ih, otherFamily(ret'.p.af))
              = listIn(shards, ret'.ih, otherFamily(ret'.p.af))

\* a read leaves the swarms, the aggregates and the counter
readsKeepData ==
    (ret'.op \in Reads /\ ret' # ret) => (shards' = shards /\ numTorrents' = numTorrents)

\* a read leaves every mutex as it found it
readsKeepLocks ==
    (ret'.op \in Reads /\ ret' # ret) => lock' = lock

\* C32: a put, delete or graduation on (ih, f) leaves unchanged every swarm
\* of every other infohash in every shard and the list of the other family
\* of ih; announce_peers, scrape, num_* and get_* change no state of the
\* store at all: no swarm, no aggregate, no counter and no mutex.
C32_FrameEffect ==
    [][writesKeepOthers /\ readsKeepData /\ readsKeepLocks]_vars

\* the frame of the data alone
C32_DataFrame ==
    [][writesKeepOthers /\ readsKeepData]_vars

(***************************************************************************)
(* The sweep's goroutine while Stop is called.                             *)
(***************************************************************************)
\* C33: the goroutine of the sweep never runs into the panic of a call on
\* the closed store: however Stop falls between the timer, the calls of
\* NumTotalPeers and NumSwarms at the start and at the end of
\* collectGarbage and the passes over the shards, the goroutine is asleep,
\* inside a sweep that goes on, or has returned.
C33_SweepNeverPanics ==
    gc.pc # "panicked"

(***************************************************************************)
(* Callers in flight while Stop replaces the shard container.  A put or a  *)
(* delete passes the select on s.closed, reads s.shards and locks the      *)
(* shard's mutex, updates the shard, reads s.shards again and unlocks.     *)
(* Stop's goroutine writes s.shards with no lock held: a caller reads the  *)
(* pointer it wrote or the one before.                                     *)
(***************************************************************************)
ShutWrites == {"put_seeder", "delete_seeder"}

\* the select on s.closed takes the default case and the call goes on
SPass(t, op, ih, p) ==
    /\ mayStart(t)
    /\ ~stop.closed
    /\ th' = [th EXCEPT ![t] = [idleThread EXCEPT !.pc = "passed", !.op = op, !.ih = ih,
                                                  !.p = p]]
    /\ UNCHANGED <<shards, numTorrents, lock, now, ret, hist, gc, lin, stop, cfg, list, rng>>

\* s.shards.lockShardByHash(ih): the container s.shards points to is read
\* and the mutex of the shard is locked
SLock(t) ==
    /\ th[t].pc = "passed"
    /\ canLock(lock[shardOf(th[t].ih)])
    /\ lock' = [lock EXCEPT ![shardOf(th[t].ih)].w = @ \cup {t}]
    /\ th' = [th EXCEPT ![t] = [@ EXCEPT !.pc = "locked", !.gen = stop.gen,
                                         !.pre = shards[shardOf(th[t].ih)]]]
    /\ UNCHANGED <<shards, numTorrents, now, ret, hist, gc, lin, stop, cfg, list, rng>>

\* an unlock that always finds the container whose mutex it locked
SUnlockOwn(t) ==
    LET s == shardOf(th[t].ih)
        a == applyWrite(th[t].pre, th[t].op, th[t].ih, th[t].p)
    IN  /\ th[t].pc = "locked"
        /\ shards' = IF th[t].gen = stop.gen THEN [shards EXCEPT ![s] = a.sh] ELSE shards
        /\ lock' = IF th[t].gen = stop.gen THEN [lock EXCEPT ![s].w = @ \ {t}] ELSE lock
        /\ stop' = IF th[t].gen = stop.gen THEN stop
                   ELSE [stop EXCEPT !.old = [@ EXCEPT ![s].w = @ \ {t}]]
        /\ th' = [th EXCEPT ![t] = [@ EXCEPT !.pc = "add", !.pre = emptyShard,
                                             !.seen = th[t].gen,
                                             !.err = a.err, !.delta = a.delta]]
        /\ UNCHANGED <<numTorrents, now, ret, hist, gc, lin, cfg, list, rng>>

\* the update of the shard that was locked, then
\* s.shards.unlockShardByHash(ih, delta): s.shards is read again and Unlock
\* is called on the mutex of the container found, which is the one that
\* was locked or, once Stop has replaced it, possibly the new one.
\* Unlock of a mutex that is not locked is a fatal error of the runtime.
SUnlock(t) ==
    LET s == shardOf(th[t].ih)
        a == applyWrite(th[t].pre, th[t].op, th[t].ih, th[t].p)
    IN  /\ th[t].pc = "locked"
        /\ \E seen \in th[t].gen..stop.gen :
              /\ shards' = IF th[t].gen = stop.gen THEN [shards EXCEPT ![s] = a.sh]
                           ELSE shards
              /\ IF seen = stop.gen
                 THEN /\ lock' = [lock EXCEPT ![s].w = {}]
                      /\ stop' = IF lock[s].w = {} THEN [stop EXCEPT !.crashed = TRUE]
                                 ELSE stop
                      /\ th' = [th EXCEPT ![t] =
                                  [@ EXCEPT !.pc = IF lock[s].w = {} THEN "fatal" ELSE "add",
                                            !.pre = emptyShard, !.seen = seen,
                                            !.err = a.err, !.delta = a.delta]]
                 ELSE /\ lock' = lock
                      /\ stop' = [stop EXCEPT !.old = [@ EXCEPT ![s].w = @ \ {t}]]
                      /\ th' = [th EXCEPT ![t] = [@ EXCEPT !.pc = "add", !.pre = emptyShard,
                                                           !.seen = seen,
                                                           !.err = a.err, !.delta = a.delta]]
        /\ UNCHANGED <<numTorrents, now, ret, hist, gc, lin, cfg, list, rng>>

\* the atomic.AddUint64 on the counter of the container found, and the
\* return
SAdd(t) ==
    /\ th[t].pc = "add"
    /\ numTorrents' = IF th[t].seen = stop.gen THEN numTorrents + th[t].delta
                      ELSE numTorrents
    /\ ret' = [noRet EXCEPT !.op = th[t].op, !.ih = th[t].ih, !.p = th[t].p,
                            !.err = th[t].err, !.delta = th[t].delta]
    /\ th' = [th EXCEPT ![t] = idleThread]
    /\ UNCHANGED <<shards, lock, now, hist, gc, lin, stop, cfg, list, rng>>

ShutNext ==
    \/ ~stop.crashed /\ \E t \in Threads, op \in ShutWrites : SPass(t, op, StopInfohash, P1)
    \/ ~stop.crashed /\ \E t \in Threads : SLock(t)
    \/ ~stop.crashed /\ \E t \in Threads : SUnlock(t)
    \/ ~stop.crashed /\ \E t \in Threads : SAdd(t)
    \/ ~stop.crashed /\ CallStop
    \/ ~stop.crashed /\ StopClose
    \/ ~stop.crashed /\ StopDone
    \/ ~stop.crashed /\ GCExit
    \/ ~stop.crashed /\ PromExit

ShutSpec == Init /\ [][ShutNext]_vars

\* the mutexes of the container number g
locksOf(g) == IF g = stop.gen THEN lock ELSE stop.old

\* C34: every call that passed the select on s.closed before Stop releases
\* the mutex it locked: no call unlocks a mutex that is not held, and a
\* mutex of either container is write-locked only as long as the call that
\* locked it is between its Lock and its Unlock.
C34_LockPairing ==
    /\ \A t \in Threads : th[t].pc # "fatal"
    /\ \A g \in 0..stop.gen : \A i \in ShardIds : \A t \in locksOf(g)[i].w :
          th[t].pc = "locked" /\ th[t].gen = g /\ shardOf(th[t].ih) = i

(***************************************************************************)
(* The counter of swarms between an Unlock and its atomic add.             *)
(***************************************************************************)
\* numTorrents is a uint64 and atomic.AddUint64 wraps.  The variable holds
\* the signed reading of its 64 bits: -k stands for the uint64 2^64 - k,
\* which NumSwarms returns as a count above every number of swarms
wrappedBelowZero(n) == n < 0

\* C35: the counter NumSwarms reads never wraps below zero: whatever the
\* order in which a put that created a swarm and a delete or a pass of the
\* sweep that removed it apply their atomic adds after their Unlock, the
\* value read is a count of at most the swarms created so far, not a
\* number near 2^64.
C35_CounterNeverWraps ==
    ~wrappedBelowZero(getTorrentCount)

(***************************************************************************)
(* What the sampler hands back.                                            *)
(***************************************************************************)
\* no entry of the sequence s occurs twice
distinctEntries(s) == \A i, j \in 1..Len(s) : i # j => s[i] # s[j]

\* C36: the peers an announce returns hold each stored endpoint at most
\* once, whatever the swarm holds, whatever role the announcer has and
\* whatever num_want is, also when getRandomSeeders or getRandomLeechers
\* serve the call and two values of the generator fall on the same
\* position of a bucket.
C36_NoDuplicates ==
    ret.op = "announce_peers" => (distinctEntries(ret.peers4) /\ distinctEntries(ret.peers6))

(***************************************************************************)
(* A list whose peers all fall into one bucket: bucketIndex is             *)
(* hash % len(peerBuckets) with hash = 33 * hash + byte, and 33 is 1       *)
(* modulo every bucket count up to 32, so the bucket of a peer is decided  *)
(* by the sum of its 18 bytes alone.                                       *)
(***************************************************************************)
\* the records put: two more than random.Intn(s0, s1, 1024) can tell apart
LongPeers == 1026
\* the values of random.Intn(s0, s1, 1024)
Offsets == 0..1023

\* the k-th endpoint: 10.0.a.b with a + b a multiple of four, ascending in k
longPeer(k) ==
    [ip |-> <<10, 0, k \div 64, 4 * (k % 64) + ((4 - ((k \div 64) % 4)) % 4)>>,
     port |-> 6881, af |-> IPv4]

\* the first 1024 endpoints are put as seeders, the others as leechers
longRecord(k) ==
    makePeer(longPeer(k), IF k < 1024 THEN peerFlagSeeder ELSE peerFlagLeecher, 0)

\* the next endpoint is put, as PeerStore.putPeer puts it
LongFill ==
    /\ list.numPeers < LongPeers
    /\ list' = putThenRebalance(list, putPeer(list, longRecord(list.numPeers)))
    /\ ret' = [op |-> "putPeer", p |-> longRecord(list.numPeers)]
    /\ UNCHANGED <<shards, numTorrents, lock, now, hist, gc, th, lin, stop, cfg, rng>>

\* getAnnouncePeers on the list: the call returns when the sampler has
\* filled its result
LongAnnounce(seeder, numWant, draws) ==
    /\ getAnnouncePeers(list, numWant, seeder, draws).done
    /\ ret' = [op |-> "getAnnouncePeers", seeder |-> seeder, numWant |-> numWant,
               n |-> Len(getAnnouncePeers(list, numWant, seeder, draws).peers)]
    /\ UNCHANGED <<shards, numTorrents, lock, now, hist, gc, th, lin, stop, cfg, list, rng>>

LongNext ==
    \/ LongFill
    \/ \E seeder \in BOOLEAN, draws \in DrawSeqs : LongAnnounce(seeder, 1, draws)

LongSpec == Init /\ [][LongNext]_vars

\* the sampler is called for seeders, or for leechers, with a positive
\* number to collect
samplesSeeders(pl, numWant, seeder) ==
    /\ ~seeder
    /\ ~getAnnouncePeers(pl, numWant, seeder, <<>>).done
    /\ (IF numWant > pl.numPeers THEN pl.numPeers ELSE numWant) <= pl.numSeeders
samplesLeechers(pl, numWant, seeder) ==
    /\ ~getAnnouncePeers(pl, numWant, seeder, <<>>).done
    /\ ~samplesSeeders(pl, numWant, seeder)

\* a record of the role sits where b[bucketOffset % len(b)] can point
withinReach(pl, wantSeeder) ==
    \E j \in 1..Len(pl.peerBuckets) :
        /\ Len(pl.peerBuckets[j]) > 0
        /\ \E k \in Offsets :
              IF wantSeeder
              THEN isSeeder(pl.peerBuckets[j][(k % Len(pl.peerBuckets[j])) + 1])
              ELSE isLeecher(pl.peerBuckets[j][(k % Len(pl.peerBuckets[j])) + 1])

\* C37: whenever getAnnouncePeers calls getRandomSeeders or
\* getRandomLeechers for a positive number of records, a record of that
\* role sits at a position b[k % len(b)] of some bucket b for some k the
\* generator can hand out (0 <= k < 1024), so that the sampler's loop can
\* fill its result and return; also in lists with a bucket of more than
\* 1024 records.
C37_SamplerCanFinish ==
    \A seeder \in BOOLEAN, numWant \in 1..MaxWant :
        /\ samplesSeeders(list, numWant, seeder) => withinReach(list, TRUE)
        /\ samplesLeechers(list, numWant, seeder) => withinReach(list, FALSE)

(***************************************************************************)
(* The number of buckets after every mutation the store makes on a list:   *)
(* a put, a delete and the sweep's pass, each with the rebalanceBuckets    *)
(* the store calls after it.                                               *)
(***************************************************************************)
\* the records put
BandPeers == 1040
\* the sizes at which deletes and sweeps set in
BandLevels == {BandPeers \div 4, BandPeers \div 2, BandPeers}

\* the k-th record: 15 of 32 were put at time 1, the others at time 0
bandRecord(k) ==
    makePeer(testPeer(k), IF k % 2 = 0 THEN peerFlagSeeder ELSE peerFlagLeecher,
             IF k % 32 < 15 THEN 1 ELSE 0)

\* no record has been removed yet
onlyPuts == ret.op \in {"none", "put"}

\* PeerStore.putPeer on the list: putPeer, then rebalanceBuckets
BandPut ==
    /\ onlyPuts
    /\ list.numPeers < BandPeers
    /\ list' = putThenRebalance(list, putPeer(list, bandRecord(list.numPeers)))
    /\ ret' = [op |-> "put", n |-> list.numPeers]
    /\ UNCHANGED <<shards, numTorrents, lock, now, hist, gc, th, lin, stop, cfg, rng>>

\* the first record of the first bucket that has one
firstRecord(pl) ==
    pl.peerBuckets[CHOOSE j \in 1..Len(pl.peerBuckets) :
                      /\ Len(pl.peerBuckets[j]) > 0
                      /\ \A i \in 1..(j - 1) : Len(pl.peerBuckets[i]) = 0][1]

\* PeerStore.deletePeer on the list: removePeer, then rebalanceBuckets (a
\* list that lost its last peer is dropped: the last peer is kept here)
BandDelete ==
    /\ list.numPeers > 1
    /\ (onlyPuts /\ list.numPeers \in BandLevels) \/ ~onlyPuts
    /\ list' = rebalanceBuckets(removePeer(list, firstRecord(list)).pl).pl
    /\ ret' = [op |-> "delete", n |-> list.numPeers]
    /\ UNCHANGED <<shards, numTorrents, lock, now, hist, gc, th, lin, stop, cfg, rng>>

\* the pass of PeerStore.collectGarbage over the list: collectGarbage, then
\* rebalanceBuckets when a record was removed (a list left empty is dropped:
\* no pass empties the list here)
BandSwept(g) ==
    /\ onlyPuts /\ list.numPeers \in BandLevels
    /\ g.l # Nil /\ ~g.panicked
    /\ list' = Deref(g.l)
    /\ ret' = [op |-> "sweep", n |-> list.numPeers]
    /\ UNCHANGED <<shards, numTorrents, lock, now, hist, gc, th, lin, stop, cfg, rng>>

\* the pass that finds the records of time 0 stale
BandSweep == BandSwept(gcList(Ptr(list), 0, 2))

BandNext ==
    \/ BandPut
    \/ BandDelete
    \/ BandSweep

BandSpec == Init /\ [][BandNext]_vars

\* C38 as stated: after every put, delete and pass of the sweep the number
\* of buckets of the list lies between target(n) and defensive(n) for the
\* number n of peers the list holds.
C38_WithinBand ==
    LET tb == computeTargetBuckets(list.numPeers)
    IN  tb[1] <= Len(list.peerBuckets) /\ Len(list.peerBuckets) <= tb[2]

\* C38, amended: after every put, delete and pass of the sweep the number
\* of buckets is at least target(n); it is target(n) whenever target(n) =
\* defensive(n), and otherwise the larger of target(n) and the number of
\* buckets before.  It stays within [target(n), defensive(n)] when it was
\* within before and the mutation added or removed one peer.
C38_BandRule ==
    [][list' # list =>
        LET tb == computeTargetBuckets(list'.numPeers)
            was == computeTargetBuckets(list.numPeers)
            before == Len(list.peerBuckets)
            after == Len(list'.peerBuckets)
        IN  /\ after >= tb[1]
            /\ tb[1] = tb[2] => after = tb[1]
            /\ tb[1] < tb[2] => after = (IF before > tb[1] THEN before ELSE tb[1])
            /\ (before <= was[2] /\ list'.numPeers - list.numPeers \in {-1, 1})
                  => after <= tb[2]
      ]_vars

\* a pass took a list of four buckets from 1040 to 495 peers, where the
\* target is one bucket and the defensive target two: it kept four
C38_Witness ==
    /\ ret.op = "sweep" /\ ret.n = BandPeers
    /\ list.numPeers = 495
    /\ Len(list.peerBuckets) = 4
    /\ computeTargetBuckets(list.numPeers) = <<1, 2>>

(***************************************************************************)
(* Progress of the concurrent callers and of the sweep.                    *)
(***************************************************************************)
\* every goroutine that can take a step is scheduled, and a goroutine that
\* waits in Lock gets the mutex if it is free again and again (sync.RWMutex
\* does not starve a writer); the callers and the timer are not obliged to
\* start anything
ConcFairness ==
    /\ \A t \in Threads : WF_vars(WBody(t) \/ WAdd(t) \/ RBody(t) \/ RRet(t))
    /\ WF_vars(GCBegin \/ GCSweep \/ GCAdd)
    /\ SF_vars(GCLock)

\* a goroutine blocked in Lock keeps new readers out (sync.RWMutex): the
\* sweep that waits for the mutex of shard i is such a goroutine
pendingWriter(i) == gc.pc = "lock" /\ gc.i = i

FairConcNext ==
    /\ ConcNext
    /\ \A i \in ShardIds : pendingWriter(i) => lock'[i].r \subseteq lock[i].r

FairConcSpec == Init /\ [][FairConcNext]_vars /\ ConcFairness

\* the shards whose mutex goroutine t holds
heldShards(t) == {i \in ShardIds : t \in lock[i].w \cup lock[i].r}

\* C39: under fair scheduling every call that started returns and every
\* sweep that started visits all shards and ends; no mutex stays locked
\* for ever, and no goroutine asks for the mutex of a shard while it holds
\* one.
C39_Progress ==
    /\ \A t \in Threads : (th[t].pc # "idle") ~> (th[t].pc = "idle")
    /\ (gc.pc # "sleep") ~> (gc.pc = "sleep")
    /\ \A i \in ShardIds : lock[i].leaked ~> ~lock[i].leaked
    /\ [](\A t \in Threads \cup {GCId} : Cardinality(heldShards(t)) <= 1)
    /\ [](gc.pc = "lock" => heldShards(GCId) = {})

(***************************************************************************)
(* Stop called twice.  The second call may find closed signalled, or come  *)
(* after the first call's select and before its goroutine has closed the   *)
(* channel.                                                                *)
(***************************************************************************)
\* a second call of Stop on a store whose first Stop has not closed the
\* channel yet: the select takes the default case and a second goroutine
\* is started
CallStopAgain ==
    /\ ~stop.closed /\ stop.pc = "close" /\ stop.pc2 = "none"
    /\ ret' = [noRet EXCEPT !.op = "stop", !.err = ErrNone, !.again = TRUE]
    /\ stop' = [stop EXCEPT !.pc2 = "close"]
    /\ UNCHANGED <<shards, numTorrents, lock, now, hist, gc, th, lin, cfg, list, rng>>

\* the second goroutine: close(s.closed)
StopCloseAgain ==
    /\ stop.pc2 = "close"
    /\ stop' = IF stop.closed
               THEN [stop EXCEPT !.pc2 = "panicked", !.crashed = TRUE]
               ELSE [stop EXCEPT !.closed = TRUE, !.pc2 = "wait"]
    /\ UNCHANGED <<shards, numTorrents, lock, now, ret, hist, gc, th, lin, cfg, list, rng>>

\* the second goroutine: s.wg.Wait() returns, the shards are replaced and
\* its toReturn is closed
StopDoneAgain ==
    /\ stop.pc2 = "wait"
    /\ gcDone /\ promDone
    /\ shards' = newShardContainer.shards
    /\ lock' = newShardContainer.shardLocks
    /\ numTorrents' = newShardContainer.numTorrents
    /\ hist' = [ih \in Infohashes |-> [p \in InputPeers |-> noHist]]
    /\ stop' = [stop EXCEPT !.pc2 = "done", !.gen = @ + 1, !.old = lock]
    /\ UNCHANGED <<now, ret, gc, th, lin, cfg, list, rng>>

TwiceNext ==
    \/ ~stop.crashed /\ \E p \in StopPeers : PutSeeder(StopInfohash, p)
    \/ ~stop.crashed /\ \E p \in StopPeers : PutLeecher(StopInfohash, p)
    \/ ~stop.crashed /\ CallStop
    \/ ~stop.crashed /\ CallStopAgain
    \/ ~stop.crashed /\ StopClose
    \/ ~stop.crashed /\ StopCloseAgain
    \/ ~stop.crashed /\ StopDone
    \/ ~stop.crashed /\ StopDoneAgain
    \/ ~stop.crashed /\ GCExit
    \/ ~stop.crashed /\ PromExit

TwiceSpec == Init /\ [][TwiceNext]_vars

\* C40: Stop may be called twice, one call after the other or both at
\* once: closed is signalled once and no goroutine of Stop fails in
\* close(s.closed), and a call that finds closed signalled returns
\* stop.AlreadyStopped and leaves the store as it is.
C40_StopTwice ==
    /\ [](stop.pc # "panicked" /\ stop.pc2 # "panicked")
    /\ [][(ret'.op = "stop" /\ ret' # ret /\ stop.closed) =>
              /\ ret'.err = "AlreadyStopped"
              /\ UNCHANGED <<shards, numTorrents, lock, stop>>]_vars

====
